---- MODULE Spec2Model ----
(***************************************************************************)
(* A model of the bidirpc runtime (github.com/pablolagos/bidirpc).         *)
(*                                                                         *)
(* The module holds several specifications over one set of variables;      *)
(* each one drives one part of the runtime and leaves the variables of the *)
(* other parts at their initial value:                                     *)
(*                                                                         *)
(*   Spec        the request/response correlation engine of one            *)
(*               Connection (pending table, inboxes, Call, CallAsync,      *)
(*               Cancel and the Response branch of the read loop);         *)
(*   SpecSend    the send path (Send under sendMu, frames on the wire);    *)
(*   SpecHS      the handshake of one client with the server;              *)
(*   SpecReg     the server's client registry and its heartbeat;           *)
(*   SpecAC      the auto-client (Start, the reconnect loop, the slot);    *)
(*   SpecRPC     calls in both directions on one established connection,   *)
(*               and SpecSym, the same with blocking callers only;         *)
(*   SpecStall   SpecSym with each id used once, and FairSpecStall, in     *)
(*               which the handler of the first request need not return;   *)
(*   SpecCancel  one async call and the tasks that call Cancel on its      *)
(*               CallContext;                                              *)
(*   SpecLock    the mutexes of the two endpoints of one connection and    *)
(*               the tasks that take them, on a transport whose writes     *)
(*               block while the peer does not read;                       *)
(*   SpecHR      one HandlerRegistry, the tasks that Register handlers     *)
(*               and the read loops that look them up.                     *)
(***************************************************************************)
EXTENDS Integers, Sequences, FiniteSets, TLC

\* ------------------------------------------------------------------------
\* Bounds of the model
\* ------------------------------------------------------------------------

\* Number of calls issued on the connection (each gets a fresh uuid).
NumCalls == 2

CallIds == 1..NumCalls

\* Number of tasks, besides the read loop, that call Send on the connection.
NumSenders == 2

\* Number of frames handed to Send in one run.
MaxFrames == 3

\* Number of calls issued on the connection of the handshake model.
MaxRpc == 2

\* Number of connections the server accepts in one run.
NumConns == 2

\* The clock advances in steps of TickSeconds up to MaxTime seconds.
TickSeconds == 20

MaxTime == 60

\* The server's heartbeat timeout, in seconds.
DefaultHeartbeatTimeout == 40

\* Number of connections the auto-client can open in one run.
MaxConnections == 3

\* The reconnect loop's attempt counter stops growing at MaxAttempt.
MaxAttempt == 35

\* Number of calls that can be outstanding at once on the established
\* connection, with every primitive available to the callers (SpecRPC).
NumRpcCalls == 1

\* The same with blocking callers only (SpecSym).
NumSymCalls == 2

\* Number of tasks that call Cancel on the CallContext of one async call.
NumCancellers == 2

Cancellers == 1..NumCancellers

\* Number of times each of them calls Cancel.
MaxCancels == 2

\* Frames the transport holds in one direction before a write blocks
\* (SpecLock).
WireCap == 1

\* Tasks that call Register on one HandlerRegistry, read loops that call Get
\* on it, and the number of lookups of each read loop (SpecHR).
NumRegistrars == 2

NumGetters == 2

MaxGets == 2

VARIABLES
    \* --- Connection: correlation engine (Spec) ---
    kind,       \* kind[i]: which primitive issued call i ("none" before it starts)
    pc,         \* pc[i]: position of the task that runs call i
    pending,    \* c.pending: the ids that have an inbox registered
    ch,         \* ch[i]: the inbox of call i (a channel of capacity 1)
    cancelCh,   \* cancelCh[i]: TRUE when CallContext.cancelCh of call i is closed
    outcome,    \* outcome[i]: what the caller of i observed
    nOutcome,   \* nOutcome[i]: how many outcomes the caller of i observed
    sent,       \* ids whose Request frame was written to the transport
    rlState,    \* the read loop: "running", "done" (returned), "blocked"
    rlLast,     \* the last Response the read loop handled, and what became of it
    \* --- Connection: send path (SpecSend) ---
    sendMu,         \* c.sendMu: the set of tasks holding it (empty when free)
    spc,            \* spc[t]: position of task t inside Send
    cur,            \* cur[t]: the frame task t is sending (0: none)
    stream,         \* what was written through c.Enc / c.gzWriter, in order
    nFrames,        \* frames handed to Send so far
    useCompression, \* c.useCompression
    connBroken,     \* the transport returned a write error
    \* --- Handshake of one client with the server (SpecHS) ---
    ccPc,           \* position of AutoClient.connectOnce
    scPc,           \* position of Server.ServeConn
    c2s,            \* the frames the client wrote to the transport, in order
    s2c,            \* the frames the server wrote to the transport, in order
    cliRead,        \* how many frames of s2c the client's decoders consumed
    srvRead,        \* how many frames of c2s the server's decoders consumed
    cliGz,          \* useCompression of the client's Connection
    srvGz,          \* useCompression of the server's Connection
    negMsg,         \* the negotiation frame ServeConn decoded
    resp,           \* the negotiation frame connectOnce decoded
    acUseCompression, \* AutoClient.useCompression
    authOk,         \* what authFunc answers for the client's credentials
    nAuthCalls,     \* how many times ServeConn invoked authFunc
    nOnReady,       \* how many times connectOnce invoked ac.onReady
    hsRegistered,   \* s.clients[clientID] holds the server's Connection
    hsPublished,    \* ac.activeConn holds the client's Connection
    cliRl,          \* the client's read loop: "off", "running", "done"
    srvRl,          \* the server's read loop: "off", "running", "done"
    nRpc,           \* calls issued on the connection so far
    \* --- Server: client registry and heartbeat (SpecReg) ---
    now,            \* the clock, in seconds
    clients,        \* s.clients: clientID -> connection
    lastPing,       \* s.lastPing: clientID -> time of the last ping
    regPc,          \* regPc[c]: position of ServeConn for connection c
    connID,         \* connID[c]: c.clientID ("" until authenticated)
    rlReg,          \* rlReg[c]: read loop of c: "off", "running", "done"
    cleanup,        \* cleanup[c]: the cleanup goroutine of c: "off", "sleep", "check", "done"
    lastGet,        \* what the last GetClientByID was asked and returned
    getSeq,         \* flips each time GetClientByID returns
    pingFrom,       \* pingFrom[id]: the connection that wrote s.lastPing[id] last (0: no entry)
    crashed,        \* the Go runtime aborted the process (fatal error)
    \* --- AutoClient: Start, reconnect loop, slot (SpecAC) ---
    acPc,           \* position of the goroutine that runs connectOnce
    inLoop,         \* TRUE once that goroutine is ac.loop()
    ready,          \* the channel "ready" of Start (capacity 1)
    startRet,       \* what Start returned: "none", "pending", "nil", "err", "timeout"
    attempt,        \* the variable attempt of loop()
    delay,          \* the last value of backoffDuration(attempt), a 64-bit integer
    lastErr,        \* TRUE when the last connectOnce returned an error
    acConns,        \* acConns[c]: state of the c-th connection the client opened
    activeConn,     \* ac.activeConn: {} for nil, {c} for connection c
    lastCall,       \* the last call made on the auto-client and what it used
    \* --- Calls in both directions on one connection (SpecRPC) ---
    rtCalls,        \* rtCalls[i]: call i: who issued it, how, and what came of it
    rtPending,      \* rtPending[e]: c.pending of the Connection of endpoint e
    rtInbox,        \* rtInbox[i]: the inbox of call i (a channel of capacity 1)
    rtWire,         \* rtWire[e]: encoded frames on their way to endpoint e
    rtRl,           \* rtRl[e]: the read loop of endpoint e: "off", "running", "done"
    rtJobs,         \* handler goroutines started by "go fn(ctx)" and not yet run
    rtResp,         \* rtResp[i]: the Response messages handed to Send for id i
    rtErrSeen,      \* some earlier call on the connection returned an RPC error
    rtRegistered,   \* the server's registry has the client with a fresh ping
    rtSlot,         \* ac.activeConn holds the client's Connection
    \* --- One async call and the callers of Cancel (SpecCancel) ---
    cnTask,         \* cnTask[t]: position of task t inside Cancel: "idle", "default"
    cnCount,        \* cnCount[t]: Cancel calls task t has begun
    cnClosed,       \* cc.cancelCh is closed
    cnPanicked,     \* the runtime raised "close of closed channel"
    cnWaiter,       \* the waiter goroutine: "select", "returning", "exited"
    cnInbox,        \* the inbox of the call (a channel of capacity 1)
    cnPending,      \* the id of the call is in c.pending
    cnCallbacks,    \* what the callback was invoked with, in order
    \* --- Mutexes and blocking operations (SpecLock) ---
    lkPc,           \* lkPc[e][r]: position of task r of endpoint e
    lkOwner,        \* lkOwner[e][m]: the task of e that holds mutex m, or "free"
    lkWire,         \* lkWire[e]: frames written to the transport and not yet read by e
    lkPending,      \* lkPending[e]: callers of e with an entry in c.pending
    lkInbox,        \* lkInbox[e][c]: messages in the inbox of caller c (capacity 1)
    lkMsg,          \* lkMsg[e]: the frame the read loop of e is handling
    \* --- One HandlerRegistry (SpecHR) ---
    hrTask,         \* hrTask[t]: where task t is inside Register or Get, and with what
    hrGets,         \* hrGets[t]: lookups read loop t has begun
    hrHandlers,     \* hr.handlers, the map from method to handler
    hrLastReg,      \* hrLastReg[m]: the handler of the last Register(m, _) that returned
    hrLast,         \* the last Get that returned: what it gave and what was registered
    hrCrashed       \* the runtime aborted on a concurrent map access

corrVars == <<kind, pc, pending, ch, cancelCh, outcome, nOutcome, sent, rlState,
              rlLast>>

sendVars == <<sendMu, spc, cur, stream, nFrames, useCompression, connBroken>>

hsVars == <<ccPc, scPc, c2s, s2c, cliRead, srvRead, cliGz, srvGz, negMsg, resp,
            acUseCompression, authOk, nAuthCalls, nOnReady, hsRegistered, hsPublished, cliRl,
            srvRl, nRpc>>

regVars == <<now, clients, lastPing, regPc, connID, rlReg, cleanup, lastGet,
             getSeq, pingFrom, crashed>>

acVars == <<acPc, inLoop, ready, startRet, attempt, delay, lastErr, acConns,
            activeConn, lastCall>>

rtVars == <<rtCalls, rtPending, rtInbox, rtWire, rtRl, rtJobs, rtResp,
            rtErrSeen, rtRegistered, rtSlot>>

cnVars == <<cnTask, cnCount, cnClosed, cnPanicked, cnWaiter, cnInbox, cnPending,
            cnCallbacks>>

lkVars == <<lkPc, lkOwner, lkWire, lkPending, lkInbox, lkMsg>>

hrVars == <<hrTask, hrGets, hrHandlers, hrLastReg, hrLast, hrCrashed>>

vars == <<corrVars, sendVars, hsVars, regVars, acVars, rtVars, cnVars, lkVars,
          hrVars>>

otherThanCorr == <<sendVars, hsVars, regVars, acVars, rtVars, cnVars, lkVars, hrVars>>

otherThanSend == <<corrVars, hsVars, regVars, acVars, rtVars, cnVars, lkVars, hrVars>>

otherThanHS == <<corrVars, sendVars, regVars, acVars, rtVars, cnVars, lkVars, hrVars>>

otherThanReg == <<corrVars, sendVars, hsVars, acVars, rtVars, cnVars, lkVars, hrVars>>

otherThanAC == <<corrVars, sendVars, hsVars, regVars, rtVars, cnVars, lkVars, hrVars>>

otherThanRT == <<corrVars, sendVars, hsVars, regVars, acVars, cnVars, lkVars, hrVars>>

otherThanCancel == <<corrVars, sendVars, hsVars, regVars, acVars, rtVars, lkVars, hrVars>>

otherThanLock == <<corrVars, sendVars, hsVars, regVars, acVars, rtVars, cnVars, hrVars>>

otherThanHR == <<corrVars, sendVars, hsVars, regVars, acVars, rtVars, cnVars, lkVars>>

\* ------------------------------------------------------------------------
\* Connection: pending table, Call, CallAsync, Cancel, read loop
\* ------------------------------------------------------------------------

NoOutcome == [kind |-> "none", from |-> 0]

\* A Response frame as the read loop decodes it: the correlation id and
\* whether msg.Error is set.
Response(id, isErr) == [id |-> id, isErr |-> isErr]

\* No Response handled so far.  seq flips with every Response the read loop
\* handles; dropped tells that its id had no entry in c.pending.
NoResponse == [seq |-> 0, id |-> 0, dropped |-> FALSE]

Handled(id, dropped) == [seq |-> 1 - rlLast.seq, id |-> id, dropped |-> dropped]

\* What Call returns for a delivered message: a ResponseError when msg.Error
\* is set, msg.Result otherwise.
OutcomeOf(msg) == [kind |-> IF msg.isErr THEN "error" ELSE "result", from |-> msg.id]

\* NewConnection: an empty pending table, the read loop about to run.
NewConnection ==
    /\ kind = [i \in CallIds |-> "none"]
    /\ pc = [i \in CallIds |-> "idle"]
    /\ pending = {}
    /\ ch = [i \in CallIds |-> <<>>]
    /\ cancelCh = [i \in CallIds |-> FALSE]
    /\ outcome = [i \in CallIds |-> NoOutcome]
    /\ nOutcome = [i \in CallIds |-> 0]
    /\ sent = {}
    /\ rlState = "running"
    /\ rlLast = NoResponse

\* Call / CallAsync, first part: a fresh id, a fresh inbox of capacity one,
\* registered in c.pending under pendingMu.
CallRegister(i, k) ==
    /\ pc[i] = "idle"
    /\ rlState # "blocked"
    /\ kind' = [kind EXCEPT ![i] = k]
    /\ pending' = pending \cup {i}
    /\ pc' = [pc EXCEPT ![i] = "registered"]
    /\ UNCHANGED <<ch, cancelCh, outcome, nOutcome, sent, rlState, rlLast>>
    /\ UNCHANGED otherThanCorr

\* c.Send(req) returns nil: the Request frame is on the transport.  For
\* CallAsync the waiter goroutine is started.
CallSendOk(i) ==
    /\ pc[i] = "registered"
    /\ sent' = sent \cup {i}
    /\ pc' = [pc EXCEPT ![i] = "waiting"]
    /\ UNCHANGED <<kind, pending, ch, cancelCh, outcome, nOutcome, rlState, rlLast>>
    /\ UNCHANGED otherThanCorr

\* c.Send(req) returns an error: nothing was handed to the peer.
CallSendErr(i) ==
    /\ pc[i] = "registered"
    /\ pc' = [pc EXCEPT ![i] = "sendfail"]
    /\ UNCHANGED <<kind, pending, ch, cancelCh, outcome, nOutcome, sent, rlState, rlLast>>
    /\ UNCHANGED otherThanCorr

\* Call after a failed Send: delete(c.pending, id) under pendingMu, then
\* return nil, err.
CallSendErrReturn(i) ==
    /\ pc[i] = "sendfail"
    /\ kind[i] = "Call"
    /\ rlState # "blocked"
    /\ pending' = pending \ {i}
    /\ outcome' = [outcome EXCEPT ![i] = [kind |-> "senderr", from |-> 0]]
    /\ nOutcome' = [nOutcome EXCEPT ![i] = @ + 1]
    /\ pc' = [pc EXCEPT ![i] = "done"]
    /\ UNCHANGED <<kind, ch, cancelCh, sent, rlState, rlLast>>
    /\ UNCHANGED otherThanCorr

\* A CallAsync that starts the callback after a failed Send and leaves the
\* entry in c.pending.
AsyncSendErrReturnMutKeepsEntry(i) ==
    /\ pc[i] = "sendfail"
    /\ kind[i] = "CallAsync"
    /\ pc' = [pc EXCEPT ![i] = "errcallback"]
    /\ UNCHANGED <<kind, pending, ch, cancelCh, outcome, nOutcome, sent, rlState, rlLast>>
    /\ UNCHANGED otherThanCorr

\* CallAsync after a failed Send: delete(c.pending, id) under pendingMu,
\* go callback(nil, err), return nil.
AsyncSendErrReturn(i) ==
    /\ pc[i] = "sendfail"
    /\ kind[i] = "CallAsync"
    /\ rlState # "blocked"
    /\ pending' = pending \ {i}
    /\ pc' = [pc EXCEPT ![i] = "errcallback"]
    /\ UNCHANGED <<kind, ch, cancelCh, outcome, nOutcome, sent, rlState, rlLast>>
    /\ UNCHANGED otherThanCorr

\* The goroutine started by "go callback(nil, err)" runs the callback.
AsyncSendErrCallback(i) ==
    /\ pc[i] = "errcallback"
    /\ outcome' = [outcome EXCEPT ![i] = [kind |-> "senderr", from |-> 0]]
    /\ nOutcome' = [nOutcome EXCEPT ![i] = @ + 1]
    /\ pc' = [pc EXCEPT ![i] = "done"]
    /\ UNCHANGED <<kind, pending, ch, cancelCh, sent, rlState, rlLast>>
    /\ UNCHANGED otherThanCorr

\* Call, "case msg := <-ch": the inbox holds a message; Call returns it.
CallRecv(i) ==
    /\ pc[i] = "waiting"
    /\ kind[i] = "Call"
    /\ Len(ch[i]) > 0
    /\ ch' = [ch EXCEPT ![i] = Tail(@)]
    /\ outcome' = [outcome EXCEPT ![i] = OutcomeOf(Head(ch[i]))]
    /\ nOutcome' = [nOutcome EXCEPT ![i] = @ + 1]
    /\ pc' = [pc EXCEPT ![i] = "done"]
    /\ UNCHANGED <<kind, pending, cancelCh, sent, rlState, rlLast>>
    /\ UNCHANGED otherThanCorr

\* Call, "case <-time.After(timeout)": the select takes the timer.
CallTimeout(i) ==
    /\ pc[i] = "waiting"
    /\ kind[i] = "Call"
    /\ pc' = [pc EXCEPT ![i] = "timedout"]
    /\ UNCHANGED <<kind, pending, ch, cancelCh, outcome, nOutcome, sent, rlState, rlLast>>
    /\ UNCHANGED otherThanCorr

\* Call after the timer: delete(c.pending, id) under pendingMu, then return
\* the timeout error.
CallTimeoutReturn(i) ==
    /\ pc[i] = "timedout"
    /\ rlState # "blocked"
    /\ pending' = pending \ {i}
    /\ outcome' = [outcome EXCEPT ![i] = [kind |-> "timeout", from |-> 0]]
    /\ nOutcome' = [nOutcome EXCEPT ![i] = @ + 1]
    /\ pc' = [pc EXCEPT ![i] = "done"]
    /\ UNCHANGED <<kind, ch, cancelCh, sent, rlState, rlLast>>
    /\ UNCHANGED otherThanCorr

\* CallAsync waiter, "case msg := <-ch": the callback is invoked with the
\* result or with the error of the message.
AsyncRecv(i) ==
    /\ pc[i] = "waiting"
    /\ kind[i] = "CallAsync"
    /\ Len(ch[i]) > 0
    /\ ch' = [ch EXCEPT ![i] = Tail(@)]
    /\ outcome' = [outcome EXCEPT ![i] = OutcomeOf(Head(ch[i]))]
    /\ nOutcome' = [nOutcome EXCEPT ![i] = @ + 1]
    /\ pc' = [pc EXCEPT ![i] = "called"]
    /\ UNCHANGED <<kind, pending, cancelCh, sent, rlState, rlLast>>
    /\ UNCHANGED otherThanCorr

\* CallAsync waiter, "case <-time.After(timeout)": the callback is invoked
\* with the timeout error.
AsyncTimeout(i) ==
    /\ pc[i] = "waiting"
    /\ kind[i] = "CallAsync"
    /\ outcome' = [outcome EXCEPT ![i] = [kind |-> "timeout", from |-> 0]]
    /\ nOutcome' = [nOutcome EXCEPT ![i] = @ + 1]
    /\ pc' = [pc EXCEPT ![i] = "called"]
    /\ UNCHANGED <<kind, pending, ch, cancelCh, sent, rlState, rlLast>>
    /\ UNCHANGED otherThanCorr

\* CallAsync waiter, "case <-ctx.cancelCh": the callback is invoked with the
\* "call cancelled" error.
AsyncCancelled(i) ==
    /\ pc[i] = "waiting"
    /\ kind[i] = "CallAsync"
    /\ cancelCh[i]
    /\ outcome' = [outcome EXCEPT ![i] = [kind |-> "cancelled", from |-> 0]]
    /\ nOutcome' = [nOutcome EXCEPT ![i] = @ + 1]
    /\ pc' = [pc EXCEPT ![i] = "called"]
    /\ UNCHANGED <<kind, pending, ch, cancelCh, sent, rlState, rlLast>>
    /\ UNCHANGED otherThanCorr

\* CallAsync waiter, the deferred function: delete(c.pending, id) under
\* pendingMu, after the callback has returned.
AsyncDeferredDelete(i) ==
    /\ pc[i] = "called"
    /\ rlState # "blocked"
    /\ pending' = pending \ {i}
    /\ pc' = [pc EXCEPT ![i] = "done"]
    /\ UNCHANGED <<kind, ch, cancelCh, outcome, nOutcome, sent, rlState, rlLast>>
    /\ UNCHANGED otherThanCorr

\* CallContext.Cancel by one task: close cancelCh unless it is closed.  The
\* handle exists once CallAsync has returned it (after a successful Send).
Cancel(i) ==
    /\ kind[i] = "CallAsync"
    /\ pc[i] \in {"waiting", "called", "done"}
    /\ i \in sent
    /\ ~cancelCh[i]
    /\ cancelCh' = [cancelCh EXCEPT ![i] = TRUE]
    /\ UNCHANGED <<kind, pc, pending, ch, outcome, nOutcome, sent, rlState, rlLast>>
    /\ UNCHANGED otherThanCorr

\* A read loop that hands the message to some registered inbox instead of
\* the one registered for msg.ID.
HandleResponseMutWrongInbox(id, isErr) ==
    /\ rlState = "running"
    /\ id \in sent
    /\ \E j \in pending :
          /\ Len(ch[j]) = 0
          /\ ch' = [ch EXCEPT ![j] = Append(@, Response(id, isErr))]
          /\ pending' = pending \ {j}
    /\ rlLast' = Handled(id, FALSE)
    /\ UNCHANGED <<kind, pc, cancelCh, outcome, nOutcome, sent, rlState>>
    /\ UNCHANGED otherThanCorr

\* A read loop that delivers the message and leaves the entry in c.pending.
HandleResponseMutKeepsEntry(id, isErr) ==
    /\ rlState = "running"
    /\ id \in sent
    /\ IF id \in pending
          THEN IF Len(ch[id]) = 0
                  THEN /\ ch' = [ch EXCEPT ![id] = Append(@, Response(id, isErr))]
                       /\ rlLast' = Handled(id, FALSE)
                       /\ UNCHANGED <<pending, rlState>>
                  ELSE /\ rlState' = "blocked"
                       /\ UNCHANGED <<ch, pending, rlLast>>
          ELSE /\ rlLast' = Handled(id, TRUE)
               /\ UNCHANGED <<ch, pending, rlState>>
    /\ UNCHANGED <<kind, pc, cancelCh, outcome, nOutcome, sent>>
    /\ UNCHANGED otherThanCorr

\* A read loop for which a Response without a pending entry is a protocol
\* error that ends it.
HandleResponseMutProtocolError(id, isErr) ==
    /\ rlState = "running"
    /\ id \in sent
    /\ IF id \in pending
          THEN IF Len(ch[id]) = 0
                  THEN /\ ch' = [ch EXCEPT ![id] = Append(@, Response(id, isErr))]
                       /\ pending' = pending \ {id}
                       /\ rlLast' = Handled(id, FALSE)
                       /\ UNCHANGED rlState
                  ELSE /\ rlState' = "blocked"
                       /\ UNCHANGED <<ch, pending, rlLast>>
          ELSE /\ rlLast' = Handled(id, TRUE)
               /\ rlState' = "done"
               /\ UNCHANGED <<ch, pending>>
    /\ UNCHANGED <<kind, pc, cancelCh, outcome, nOutcome, sent>>
    /\ UNCHANGED otherThanCorr

\* handleMessage, case ResponseType, on a frame the read loop decoded: under
\* pendingMu, look the id up; if it is there, send the message to its inbox
\* and delete the entry; otherwise drop the frame.  The channel send blocks
\* while the inbox is full, with pendingMu held.  The peer answers only ids
\* it has seen in a Request frame (the ids are fresh uuids); it may answer
\* late, and more than once.
HandleResponse(id, isErr) ==
    /\ rlState = "running"
    /\ id \in sent
    /\ IF id \in pending
          THEN IF Len(ch[id]) = 0
                  THEN /\ ch' = [ch EXCEPT ![id] = Append(@, Response(id, isErr))]
                       /\ pending' = pending \ {id}
                       /\ rlLast' = Handled(id, FALSE)
                       /\ UNCHANGED rlState
                  ELSE /\ rlState' = "blocked"
                       /\ UNCHANGED <<ch, pending, rlLast>>
          ELSE /\ rlLast' = Handled(id, TRUE)
               /\ UNCHANGED <<ch, pending, rlState>>
    /\ UNCHANGED <<kind, pc, cancelCh, outcome, nOutcome, sent>>
    /\ UNCHANGED otherThanCorr

\* readLoop: dec.Decode returns an error (bad frame, peer gone); the loop
\* returns and the deferred function calls connClosed, which does nothing.
ReadLoopExit ==
    /\ rlState = "running"
    /\ rlState' = "done"
    /\ UNCHANGED <<kind, pc, pending, ch, cancelCh, outcome, nOutcome, sent, rlLast>>
    /\ UNCHANGED otherThanCorr

\* The parts of the runtime a specification does not drive stay as built.
SendOff ==
    /\ sendMu = {}
    /\ spc = <<>>
    /\ cur = <<>>
    /\ stream = <<>>
    /\ nFrames = 0
    /\ useCompression = FALSE
    /\ connBroken = FALSE

CorrOff ==
    /\ kind = <<>>
    /\ pc = <<>>
    /\ pending = {}
    /\ ch = <<>>
    /\ cancelCh = <<>>
    /\ outcome = <<>>
    /\ nOutcome = <<>>
    /\ sent = {}
    /\ rlState = "off"
    /\ rlLast = NoResponse

HSOff ==
    /\ ccPc = "off"
    /\ scPc = "off"
    /\ c2s = <<>>
    /\ s2c = <<>>
    /\ cliRead = 0
    /\ srvRead = 0
    /\ cliGz = FALSE
    /\ srvGz = FALSE
    /\ negMsg = <<>>
    /\ resp = <<>>
    /\ acUseCompression = FALSE
    /\ authOk = FALSE
    /\ nAuthCalls = 0
    /\ nOnReady = 0
    /\ hsRegistered = FALSE
    /\ hsPublished = FALSE
    /\ cliRl = "off"
    /\ srvRl = "off"
    /\ nRpc = 0

RegOff ==
    /\ now = 0
    /\ clients = <<>>
    /\ lastPing = <<>>
    /\ regPc = <<>>
    /\ connID = <<>>
    /\ rlReg = <<>>
    /\ cleanup = <<>>
    /\ lastGet = <<>>
    /\ getSeq = 0
    /\ pingFrom = <<>>
    /\ crashed = FALSE

ACOff ==
    /\ acPc = "off"
    /\ inLoop = FALSE
    /\ ready = <<>>
    /\ startRet = "none"
    /\ attempt = 1
    /\ delay = <<>>
    /\ lastErr = FALSE
    /\ acConns = <<>>
    /\ activeConn = {}
    /\ lastCall = <<>>

RTOff ==
    /\ rtCalls = <<>>
    /\ rtPending = <<>>
    /\ rtInbox = <<>>
    /\ rtWire = <<>>
    /\ rtRl = <<>>
    /\ rtJobs = {}
    /\ rtResp = <<>>
    /\ rtErrSeen = FALSE
    /\ rtRegistered = FALSE
    /\ rtSlot = FALSE

CancelOff ==
    /\ cnTask = <<>>
    /\ cnCount = <<>>
    /\ cnClosed = FALSE
    /\ cnPanicked = FALSE
    /\ cnWaiter = "off"
    /\ cnInbox = <<>>
    /\ cnPending = FALSE
    /\ cnCallbacks = <<>>

LockOff ==
    /\ lkPc = <<>>
    /\ lkOwner = <<>>
    /\ lkWire = <<>>
    /\ lkPending = <<>>
    /\ lkInbox = <<>>
    /\ lkMsg = <<>>

RegistryOff ==
    /\ hrTask = <<>>
    /\ hrGets = <<>>
    /\ hrHandlers = <<>>
    /\ hrLastReg = <<>>
    /\ hrLast = <<>>
    /\ hrCrashed = FALSE

Init == NewConnection /\ SendOff /\ HSOff /\ RegOff /\ ACOff /\ RTOff /\ CancelOff /\ LockOff /\ RegistryOff

Next ==
    \/ \E i \in CallIds : \E k \in {"Call", "CallAsync"} : CallRegister(i, k)
    \/ \E i \in CallIds : CallSendOk(i)
    \/ \E i \in CallIds : CallSendErr(i)
    \/ \E i \in CallIds : CallSendErrReturn(i)
    \/ \E i \in CallIds : AsyncSendErrReturn(i)
    \/ \E i \in CallIds : AsyncSendErrCallback(i)
    \/ \E i \in CallIds : CallRecv(i)
    \/ \E i \in CallIds : CallTimeout(i)
    \/ \E i \in CallIds : CallTimeoutReturn(i)
    \/ \E i \in CallIds : AsyncRecv(i)
    \/ \E i \in CallIds : AsyncTimeout(i)
    \/ \E i \in CallIds : AsyncCancelled(i)
    \/ \E i \in CallIds : AsyncDeferredDelete(i)
    \/ \E i \in CallIds : Cancel(i)
    \/ \E i \in CallIds : \E e \in BOOLEAN : HandleResponse(i, e)
    \/ ReadLoopExit

Spec == Init /\ [][Next]_vars

\* ------------------------------------------------------------------------
\* Claims about the correlation engine (checked under Spec)
\* ------------------------------------------------------------------------

Delivered(i) == outcome[i].kind \in {"result", "error"}

\* C1: every call made with Call or CallAsync observes exactly one outcome
\* (never two, and one once the call is over), and a Response frame with id X
\* is delivered only to the inbox registered for X: every message in an
\* inbox, and every result or error a caller observes, carries the caller's
\* own id.
C1_Correlation ==
    \A i \in CallIds :
        /\ nOutcome[i] <= 1
        /\ pc[i] = "done" => nOutcome[i] = 1
        /\ (nOutcome[i] = 1) = (outcome[i] # NoOutcome)
        /\ \A k \in 1..Len(ch[i]) : ch[i][k].id = i
        /\ Delivered(i) => outcome[i].from = i

\* C1 witness: a blocking call and an async call were in flight together and
\* each completed with the response carrying its own id.
C1_Witness ==
    \E i, j \in CallIds :
        /\ i # j
        /\ kind[i] = "Call" /\ kind[j] = "CallAsync"
        /\ pc[i] = "done" /\ pc[j] = "done"
        /\ outcome[i] = [kind |-> "result", from |-> i]
        /\ outcome[j] = [kind |-> "error", from |-> j]

\* C2: once the caller of a blocking or async call has received its outcome
\* (for async: once the callback has been invoked), no step writes to the
\* inbox of that id and no step invokes a further callback for it.
C2_AtMostOnce ==
    [][\A i \in CallIds :
          nOutcome[i] > 0 =>
              /\ Len(ch'[i]) <= Len(ch[i])
              /\ nOutcome'[i] = nOutcome[i]]_vars

\* C2 witness: the callback of an async call has reported a timeout and the
\* read loop has then written the peer's response into the inbox of that id.
C2_Witness ==
    \E i \in CallIds :
        /\ kind[i] = "CallAsync"
        /\ outcome[i].kind = "timeout"
        /\ Len(ch[i]) = 1

\* C3: in the step in which the read loop terminates, every call pending on
\* the connection is released: its entry leaves the pending table or a
\* disconnection error is put in its inbox.
C3_ExitReleasesPending ==
    [][(rlState = "running" /\ rlState' = "done") =>
          \A i \in pending : i \notin pending' \/ Len(ch'[i]) > Len(ch[i])]_vars

\* C3 witness: the read loop is gone and a call still waits on its inbox,
\* registered in the pending table, with nothing delivered to it.
C3_Witness ==
    /\ rlState = "done"
    /\ \E i \in pending : pc[i] = "waiting" /\ Len(ch[i]) = 0

\* ------------------------------------------------------------------------
\* Connection: the send path (SpecSend)
\* ------------------------------------------------------------------------

\* The read loop is task 0: it calls Send itself when it answers a request
\* for an unknown method (ctx.WriteError inside handleMessage).  The other
\* tasks are callers (Call, CallAsync) and handler goroutines.
ReadLoopTask == 0

SendTasks == 0..NumSenders

\* A frame handed to Send: its number in the run and what it is.
Frame(n, type) == [n |-> n, type |-> type]

NoFrame == Frame(0, "none")

Piece(f, part) == [frame |-> f, part |-> part]

\* The connection after the handshake: EnableCompression was called or not.
SendInit ==
    /\ sendMu = {}
    /\ spc = [t \in SendTasks |-> "idle"]
    /\ cur = [t \in SendTasks |-> NoFrame]
    /\ stream = <<>>
    /\ nFrames = 0
    /\ useCompression \in BOOLEAN
    /\ connBroken = FALSE

\* A task enters Send(msg) and reaches c.sendMu.Lock().
EnterSend(t, type) ==
    /\ spc[t] = "idle"
    /\ nFrames < MaxFrames
    /\ nFrames' = nFrames + 1
    /\ cur' = [cur EXCEPT ![t] = Frame(nFrames + 1, type)]
    /\ spc' = [spc EXCEPT ![t] = "lock"]
    /\ UNCHANGED <<sendMu, stream, useCompression, connBroken>>
    /\ UNCHANGED otherThanSend

\* Call / CallAsync: c.Send(req) by a caller task.
CallerSend(t) ==
    /\ t # ReadLoopTask
    /\ EnterSend(t, "request")

\* handleMessage, case RequestType, handler found: "go fn(ctx)"; the new
\* goroutine answers with ctx.WriteResponse or ctx.WriteError, i.e. Send.
\* The read loop must be between two frames to dispatch.
DispatchHandler(t) ==
    /\ t # ReadLoopTask
    /\ spc[ReadLoopTask] = "idle"
    /\ EnterSend(t, "response")

\* handleMessage, case RequestType, no handler: ctx.WriteError(404, ...) is
\* called on the read loop's own goroutine.
ReadLoopSend404 ==
    /\ spc[ReadLoopTask] = "idle"
    /\ EnterSend(ReadLoopTask, "response404")

\* A Send that does not take the lock.
SendLockMutNoMutex(t) ==
    /\ spc[t] = "lock"
    /\ sendMu' = sendMu \cup {t}
    /\ spc' = [spc EXCEPT ![t] = "encode"]
    /\ UNCHANGED <<cur, stream, nFrames, useCompression, connBroken>>
    /\ UNCHANGED otherThanSend

\* c.sendMu.Lock() returns: the mutex was free.
SendLock(t) ==
    /\ spc[t] = "lock"
    /\ sendMu = {}
    /\ sendMu' = {t}
    /\ spc' = [spc EXCEPT ![t] = "encode"]
    /\ UNCHANGED <<cur, stream, nFrames, useCompression, connBroken>>
    /\ UNCHANGED otherThanSend

\* c.Enc.Encode(msg) returns nil: the frame's JSON went into the stream (the
\* transport, or the gzip writer when compression is on).  Without
\* compression Send returns nil and the deferred Unlock runs.
SendEncodeOk(t) ==
    /\ spc[t] = "encode"
    /\ ~connBroken
    /\ stream' = Append(stream, Piece(cur[t], "json"))
    /\ IF useCompression
          THEN /\ spc' = [spc EXCEPT ![t] = "flush"]
               /\ UNCHANGED <<sendMu, cur>>
          ELSE /\ spc' = [spc EXCEPT ![t] = "idle"]
               /\ cur' = [cur EXCEPT ![t] = NoFrame]
               /\ sendMu' = sendMu \ {t}
    /\ UNCHANGED <<nFrames, useCompression, connBroken>>
    /\ UNCHANGED otherThanSend

\* c.Enc.Encode(msg) returns an error: the write failed after none or some
\* of the frame's bytes; Send returns the error and the deferred Unlock runs.
SendEncodeErr(t, cut) ==
    /\ spc[t] = "encode"
    /\ stream' = IF cut /\ ~connBroken
                    THEN Append(stream, Piece(cur[t], "cut"))
                    ELSE stream
    /\ connBroken' = TRUE
    /\ spc' = [spc EXCEPT ![t] = "idle"]
    /\ cur' = [cur EXCEPT ![t] = NoFrame]
    /\ sendMu' = sendMu \ {t}
    /\ UNCHANGED <<nFrames, useCompression>>
    /\ UNCHANGED otherThanSend

\* c.gzWriter.Flush() returns: on success the frame's flush block follows
\* its JSON; on error nothing more is written.  Send returns and the
\* deferred Unlock runs.
SendFlush(t, ok) ==
    /\ spc[t] = "flush"
    /\ ok => ~connBroken
    /\ stream' = IF ok THEN Append(stream, Piece(cur[t], "flush")) ELSE stream
    /\ connBroken' = (connBroken \/ ~ok)
    /\ spc' = [spc EXCEPT ![t] = "idle"]
    /\ cur' = [cur EXCEPT ![t] = NoFrame]
    /\ sendMu' = sendMu \ {t}
    /\ UNCHANGED <<nFrames, useCompression>>
    /\ UNCHANGED otherThanSend

InitSend == CorrOff /\ SendInit /\ HSOff /\ RegOff /\ ACOff /\ RTOff /\ CancelOff /\ LockOff /\ RegistryOff

NextSend ==
    \/ \E t \in SendTasks : CallerSend(t)
    \/ \E t \in SendTasks : DispatchHandler(t)
    \/ ReadLoopSend404
    \/ \E t \in SendTasks : SendLock(t)
    \/ \E t \in SendTasks : SendEncodeOk(t)
    \/ \E t \in SendTasks : \E cut \in BOOLEAN : SendEncodeErr(t, cut)
    \/ \E t \in SendTasks : \E ok \in BOOLEAN : SendFlush(t, ok)

SpecSend == InitSend /\ [][NextSend]_vars

\* ------------------------------------------------------------------------
\* Claims about the send path (checked under SpecSend)
\* ------------------------------------------------------------------------

\* The pieces a whole frame consists of.
FrameParts == IF useCompression THEN <<"json", "flush">> ELSE <<"json">>

\* The positions of the stream that belong to frame f.
PositionsOf(f) == {k \in 1..Len(stream) : stream[k].frame = f}

FramesOnStream == {stream[k].frame : k \in 1..Len(stream)}

\* Frame f is contiguous on the stream and its pieces are a prefix of
\* FrameParts (or a single cut piece).
Contiguous(f) ==
    LET ps == PositionsOf(f)
        lo == CHOOSE k \in ps : \A m \in ps : k <= m
    IN  /\ ps = lo..(lo + Cardinality(ps) - 1)
        /\ Cardinality(ps) <= Len(FrameParts)
        /\ \/ \A k \in ps : stream[k].part = FrameParts[k - lo + 1]
           \/ Cardinality(ps) = 1 /\ stream[lo].part = "cut"

IsWhole(f) ==
    /\ Cardinality(PositionsOf(f)) = Len(FrameParts)
    /\ \A k \in PositionsOf(f) : stream[k].part # "cut"

AuthOKEmitted == \E k \in 1..Len(s2c) : s2c[k].type = "auth_ok"

\* SendNegotiation encodes with a new plaintext encoder on c.Conn, whatever
\* c.Enc is.
NegotiationFrame(type, useComp) ==
    [kind |-> "neg", type |-> type, useCompression |-> useComp, gz |-> FALSE,
     afterAuthOK |-> AuthOKEmitted]

\* Send encodes with c.Enc: the gzip encoder once EnableCompression ran.
RPCFrame(type, gz) ==
    [kind |-> "rpc", type |-> type, useCompression |-> FALSE, gz |-> gz,
     afterAuthOK |-> AuthOKEmitted]

HSInit ==
    /\ ccPc = "dial"
    /\ scPc = "recvNeg"
    /\ c2s = <<>>
    /\ s2c = <<>>
    /\ cliRead = 0
    /\ srvRead = 0
    /\ cliGz = FALSE
    /\ srvGz = FALSE
    /\ negMsg = <<>>
    /\ resp = <<>>
    /\ acUseCompression \in BOOLEAN
    /\ authOk \in BOOLEAN
    /\ nAuthCalls = 0
    /\ nOnReady = 0
    /\ hsRegistered = FALSE
    /\ hsPublished = FALSE
    /\ cliRl = "off"
    /\ srvRl = "off"
    /\ nRpc = 0

\* connectOnce: tls.Dial / net.Dial, then NewConnection.
CliDial(ok) ==
    /\ ccPc = "dial"
    /\ ccPc' = IF ok THEN "sendNeg" ELSE "failed"
    /\ UNCHANGED <<scPc, c2s, s2c, cliRead, srvRead, cliGz, srvGz, negMsg, resp,
                   acUseCompression, authOk, nAuthCalls, nOnReady, hsRegistered, hsPublished, cliRl,
                   srvRl, nRpc>>
    /\ UNCHANGED otherThanHS

\* connectOnce: SendNegotiation(auth_request); on error conn.Close().
CliSendNeg(ok) ==
    /\ ccPc = "sendNeg"
    /\ IF ok
          THEN /\ c2s' = Append(c2s, NegotiationFrame("auth_request", acUseCompression))
               /\ ccPc' = "recvNeg"
          ELSE /\ ccPc' = "failed"
               /\ UNCHANGED c2s
    /\ UNCHANGED <<scPc, s2c, cliRead, srvRead, cliGz, srvGz, negMsg, resp,
                   acUseCompression, authOk, nAuthCalls, nOnReady, hsRegistered, hsPublished, cliRl,
                   srvRl, nRpc>>
    /\ UNCHANGED otherThanHS

\* connectOnce: ReceiveNegotiation(&resp) decodes one frame with a decoder
\* of its own, which reads the transport in blocks: it may take in, and
\* drop with itself, `over` frames that already follow the one it decodes.
CliRecvNeg(over) ==
    /\ ccPc = "recvNeg"
    /\ cliRead + 1 + over <= Len(s2c)
    /\ resp' = s2c[cliRead + 1]
    /\ cliRead' = cliRead + 1 + over
    /\ ccPc' = "check"
    /\ UNCHANGED <<scPc, c2s, s2c, srvRead, cliGz, srvGz, negMsg,
                   acUseCompression, authOk, nAuthCalls, nOnReady, hsRegistered, hsPublished, cliRl,
                   srvRl, nRpc>>
    /\ UNCHANGED otherThanHS

\* connectOnce: ReceiveNegotiation fails because the server closed the
\* transport without answering.
CliRecvNegErr ==
    /\ ccPc = "recvNeg"
    /\ scPc = "closed"
    /\ cliRead = Len(s2c)
    /\ ccPc' = "failed"
    /\ UNCHANGED <<scPc, c2s, s2c, cliRead, srvRead, cliGz, srvGz, negMsg, resp,
                   acUseCompression, authOk, nAuthCalls, nOnReady, hsRegistered, hsPublished, cliRl,
                   srvRl, nRpc>>
    /\ UNCHANGED otherThanHS

\* A connectOnce that tells the embedder about the connection before it
\* looks at the server's answer.
CliCheckMutReadyFirst ==
    /\ ccPc = "check"
    /\ nOnReady' = nOnReady + 1
    /\ IF resp.type # "auth_ok"
          THEN /\ ccPc' = "failed"
               /\ UNCHANGED cliGz
          ELSE /\ ccPc' = "start"
               /\ cliGz' = resp.useCompression
    /\ UNCHANGED <<scPc, c2s, s2c, cliRead, srvRead, srvGz, negMsg, resp,
                   acUseCompression, authOk, nAuthCalls, hsRegistered, hsPublished,
                   cliRl, srvRl, nRpc>>
    /\ UNCHANGED otherThanHS

\* A connectOnce that never looks at resp.UseCompression.
CliCheckMutNoCompression ==
    /\ ccPc = "check"
    /\ ccPc' = IF resp.type # "auth_ok" THEN "failed" ELSE "start"
    /\ UNCHANGED <<scPc, c2s, s2c, cliRead, srvRead, cliGz, srvGz, negMsg, resp,
                   acUseCompression, authOk, nAuthCalls, nOnReady, hsRegistered, hsPublished, cliRl,
                   srvRl, nRpc>>
    /\ UNCHANGED otherThanHS

\* connectOnce: anything but auth_ok closes the transport and fails;
\* otherwise EnableCompression when the server confirmed it.
CliCheck ==
    /\ ccPc = "check"
    /\ IF resp.type # "auth_ok"
          THEN /\ ccPc' = "failed"
               /\ UNCHANGED cliGz
          ELSE /\ ccPc' = "start"
               /\ cliGz' = resp.useCompression
    /\ UNCHANGED <<scPc, c2s, s2c, cliRead, srvRead, srvGz, negMsg, resp,
                   acUseCompression, authOk, nAuthCalls, nOnReady, hsRegistered, hsPublished, cliRl,
                   srvRl, nRpc>>
    /\ UNCHANGED otherThanHS

\* connectOnce: c.handlers = ac.handlers; c.StartReadLoop().
CliStartReadLoop ==
    /\ ccPc = "start"
    /\ cliRl' = "running"
    /\ ccPc' = "store"
    /\ UNCHANGED <<scPc, c2s, s2c, cliRead, srvRead, cliGz, srvGz, negMsg, resp,
                   acUseCompression, authOk, nAuthCalls, nOnReady, hsRegistered, hsPublished, srvRl, nRpc>>
    /\ UNCHANGED otherThanHS

\* connectOnce: ac.activeConn.Store(c).
CliStore ==
    /\ ccPc = "store"
    /\ hsPublished' = TRUE
    /\ ccPc' = "onReady"
    /\ UNCHANGED <<scPc, c2s, s2c, cliRead, srvRead, cliGz, srvGz, negMsg, resp,
                   acUseCompression, authOk, nAuthCalls, nOnReady, hsRegistered, cliRl, srvRl, nRpc>>
    /\ UNCHANGED otherThanHS

\* connectOnce: "if ac.onReady != nil { ac.onReady(c) }" and return nil.
CliOnReady ==
    /\ ccPc = "onReady"
    /\ nOnReady' = nOnReady + 1
    /\ ccPc' = "done"
    /\ UNCHANGED <<scPc, c2s, s2c, cliRead, srvRead, cliGz, srvGz, negMsg, resp,
                   acUseCompression, authOk, nAuthCalls, hsRegistered, hsPublished,
                   cliRl, srvRl, nRpc>>
    /\ UNCHANGED otherThanHS

\* ServeConn: ReceiveNegotiation; a frame that is not an auth_request closes
\* the transport.
SrvRecvNeg ==
    /\ scPc = "recvNeg"
    /\ srvRead < Len(c2s)
    /\ negMsg' = c2s[srvRead + 1]
    /\ srvRead' = srvRead + 1
    /\ scPc' = IF c2s[srvRead + 1].type = "auth_request" THEN "auth" ELSE "closed"
    /\ UNCHANGED <<ccPc, c2s, s2c, cliRead, cliGz, srvGz, resp,
                   acUseCompression, authOk, nAuthCalls, nOnReady, hsRegistered, hsPublished, cliRl,
                   srvRl, nRpc>>
    /\ UNCHANGED otherThanHS

\* A ServeConn that asks authFunc and goes on whatever it answers.
SrvAuthMutNoGate ==
    /\ scPc = "auth"
    /\ nAuthCalls' = nAuthCalls + 1
    /\ scPc' = "sendAuthOK"
    /\ UNCHANGED <<ccPc, c2s, s2c, cliRead, srvRead, cliGz, srvGz, negMsg, resp,
                   acUseCompression, authOk, nOnReady, hsRegistered, hsPublished,
                   cliRl, srvRl, nRpc>>
    /\ UNCHANGED otherThanHS

\* ServeConn: authFunc(clientID, authCode); on false send auth_fail and close;
\* on true set c.clientID and lastPing.
SrvAuth ==
    /\ scPc = "auth"
    /\ nAuthCalls' = nAuthCalls + 1
    /\ IF authOk
          THEN /\ scPc' = "sendAuthOK"
               /\ UNCHANGED s2c
          ELSE /\ s2c' = Append(s2c, NegotiationFrame("auth_fail", FALSE))
               /\ scPc' = "closed"
    /\ UNCHANGED <<ccPc, c2s, cliRead, srvRead, cliGz, srvGz, negMsg, resp,
                   acUseCompression, authOk, nOnReady, hsRegistered, hsPublished,
                   cliRl, srvRl, nRpc>>
    /\ UNCHANGED otherThanHS

\* ServeConn: SendNegotiation(auth_ok, UseCompression: negMsg.UseCompression);
\* on error close and return.
SrvSendAuthOK(ok) ==
    /\ scPc = "sendAuthOK"
    /\ IF ok
          THEN /\ s2c' = Append(s2c, NegotiationFrame("auth_ok", negMsg.useCompression))
               /\ scPc' = "compress"
          ELSE /\ scPc' = "closed"
               /\ UNCHANGED s2c
    /\ UNCHANGED <<ccPc, c2s, cliRead, srvRead, cliGz, srvGz, negMsg, resp,
                   acUseCompression, authOk, nAuthCalls, nOnReady, hsRegistered, hsPublished, cliRl,
                   srvRl, nRpc>>
    /\ UNCHANGED otherThanHS

\* A ServeConn that goes on without swapping the encoder.
SrvEnableCompressionMutSkip ==
    /\ scPc = "compress"
    /\ scPc' = "register"
    /\ UNCHANGED <<ccPc, c2s, s2c, cliRead, srvRead, cliGz, srvGz, negMsg, resp,
                   acUseCompression, authOk, nAuthCalls, nOnReady, hsRegistered, hsPublished, cliRl,
                   srvRl, nRpc>>
    /\ UNCHANGED otherThanHS

\* ServeConn: "if negMsg.UseCompression { c.EnableCompression() }":
\* gzWriter and Enc are swapped and useCompression is set.
SrvEnableCompression ==
    /\ scPc = "compress"
    /\ srvGz' = negMsg.useCompression
    /\ scPc' = "register"
    /\ UNCHANGED <<ccPc, c2s, s2c, cliRead, srvRead, cliGz, negMsg, resp,
                   acUseCompression, authOk, nAuthCalls, nOnReady, hsRegistered, hsPublished, cliRl,
                   srvRl, nRpc>>
    /\ UNCHANGED otherThanHS

\* ServeConn: c.handlers = s.handlers; s.clients[clientID] = c under clientsMu.
SrvRegister ==
    /\ scPc = "register"
    /\ hsRegistered' = TRUE
    /\ scPc' = "start"
    /\ UNCHANGED <<ccPc, c2s, s2c, cliRead, srvRead, cliGz, srvGz, negMsg, resp,
                   acUseCompression, authOk, nAuthCalls, nOnReady, hsPublished, cliRl, srvRl, nRpc>>
    /\ UNCHANGED otherThanHS

\* ServeConn: c.StartReadLoop(), then the cleanup goroutine; ServeConn returns.
SrvStartReadLoop ==
    /\ scPc = "start"
    /\ srvRl' = "running"
    /\ scPc' = "serving"
    /\ UNCHANGED <<ccPc, c2s, s2c, cliRead, srvRead, cliGz, srvGz, negMsg, resp,
                   acUseCompression, authOk, nAuthCalls, nOnReady, hsRegistered, hsPublished, cliRl, nRpc>>
    /\ UNCHANGED otherThanHS

\* Server.Call and its siblings: GetClientByID finds the connection in
\* s.clients and the Request frame goes out through conn.Send.
ServerCall ==
    /\ hsRegistered
    /\ nRpc < MaxRpc
    /\ nRpc' = nRpc + 1
    /\ s2c' = Append(s2c, RPCFrame("request", srvGz))
    /\ UNCHANGED <<ccPc, scPc, c2s, cliRead, srvRead, cliGz, srvGz, negMsg, resp,
                   acUseCompression, authOk, nAuthCalls, nOnReady, hsRegistered, hsPublished, cliRl, srvRl>>
    /\ UNCHANGED otherThanHS

\* AutoClient.Call and its siblings (and calls on the connection handed to
\* onReady): activeConn holds the connection and the Request frame goes out
\* through conn.Send.
ClientCall ==
    /\ hsPublished
    /\ nRpc < MaxRpc
    /\ nRpc' = nRpc + 1
    /\ c2s' = Append(c2s, RPCFrame("request", cliGz))
    /\ UNCHANGED <<ccPc, scPc, s2c, cliRead, srvRead, cliGz, srvGz, negMsg, resp,
                   acUseCompression, authOk, nAuthCalls, nOnReady, hsRegistered, hsPublished, cliRl, srvRl>>
    /\ UNCHANGED otherThanHS

\* The server's read loop decodes the next frame with the decoder that
\* matches c.useCompression; a frame in the other encoding is a decode error
\* and ends the loop.  A Request is answered with a Response through Send.
SrvReadLoop ==
    /\ srvRl = "running"
    /\ srvRead < Len(c2s)
    /\ srvRead' = srvRead + 1
    /\ LET f == c2s[srvRead + 1]
       IN  IF f.gz # srvGz
              THEN /\ srvRl' = "done"
                   /\ UNCHANGED s2c
              ELSE /\ UNCHANGED srvRl
                   /\ s2c' = IF f.type = "request"
                                THEN Append(s2c, RPCFrame("response", srvGz))
                                ELSE s2c
    /\ UNCHANGED <<ccPc, scPc, c2s, cliRead, cliGz, srvGz, negMsg, resp,
                   acUseCompression, authOk, nAuthCalls, nOnReady, hsRegistered, hsPublished, cliRl, nRpc>>
    /\ UNCHANGED otherThanHS

\* The client's read loop, likewise.
CliReadLoop ==
    /\ cliRl = "running"
    /\ cliRead < Len(s2c)
    /\ cliRead' = cliRead + 1
    /\ LET f == s2c[cliRead + 1]
       IN  IF f.gz # cliGz
              THEN /\ cliRl' = "done"
                   /\ UNCHANGED c2s
              ELSE /\ UNCHANGED cliRl
                   /\ c2s' = IF f.type = "request"
                                THEN Append(c2s, RPCFrame("response", cliGz))
                                ELSE c2s
    /\ UNCHANGED <<ccPc, scPc, s2c, srvRead, cliGz, srvGz, negMsg, resp,
                   acUseCompression, authOk, nAuthCalls, nOnReady, hsRegistered, hsPublished, srvRl, nRpc>>
    /\ UNCHANGED otherThanHS

InitHS == CorrOff /\ SendOff /\ HSInit /\ RegOff /\ ACOff /\ RTOff /\ CancelOff /\ LockOff /\ RegistryOff

NextHS ==
    \/ \E ok \in BOOLEAN : CliDial(ok)
    \/ \E ok \in BOOLEAN : CliSendNeg(ok)
    \/ \E over \in 0..MaxRpc : CliRecvNeg(over)
    \/ CliRecvNegErr
    \/ CliCheck
    \/ CliStartReadLoop
    \/ CliStore
    \/ CliOnReady
    \/ SrvRecvNeg
    \/ SrvAuth
    \/ \E ok \in BOOLEAN : SrvSendAuthOK(ok)
    \/ SrvEnableCompression
    \/ SrvRegister
    \/ SrvStartReadLoop
    \/ ServerCall
    \/ ClientCall
    \/ SrvReadLoop
    \/ CliReadLoop

SpecHS == InitHS /\ [][NextHS]_vars

\* ------------------------------------------------------------------------
\* Claims about the handshake (checked under SpecHS)
\* ------------------------------------------------------------------------

RPCFramesOf(w) == {k \in 1..Len(w) : w[k].kind = "rpc"}

CompressionNegotiated ==
    \E k \in 1..Len(s2c) : s2c[k].type = "auth_ok" /\ s2c[k].useCompression

PastAuth ==
    /\ srvRead >= 1
    /\ c2s[1].type = "auth_request"
    /\ scPc \notin {"recvNeg", "auth"}

Conns == 1..NumConns

ClientIDs == {"client42", "client7"}

\* Go maps: m[k] = v and delete(m, k).
MapPut(m, k, v) == [x \in (DOMAIN m) \cup {k} |-> IF x = k THEN v ELSE m[x]]

MapDelete(m, k) == [x \in (DOMAIN m) \ {k} |-> m[x]]

EmptyMap == <<>>

Times == {t \in 0..MaxTime : t <= now}

\* NewServer: empty maps; no connection accepted yet.
NewServer ==
    /\ now = 0
    /\ clients = EmptyMap
    /\ lastPing = EmptyMap
    /\ regPc = [c \in Conns |-> "accept"]
    /\ connID = [c \in Conns |-> ""]
    /\ rlReg = [c \in Conns |-> "off"]
    /\ cleanup = [c \in Conns |-> "off"]
    /\ lastGet = [id |-> "", ret |-> {}]
    /\ getSeq = 0
    /\ pingFrom = [id \in ClientIDs |-> 0]
    /\ crashed = FALSE

\* Who wrote s.lastPing[x] last, after a step in which connection c wrote
\* time.Now() under key id (c = 0: the step only deletes): nobody when the
\* key is gone, c when the entry of id holds the time of this step.
PingFromAfter(c, id) ==
    [x \in ClientIDs |->
        IF x \notin DOMAIN lastPing' THEN 0
        ELSE IF x = id /\ lastPing'[x] = now THEN c
        ELSE pingFrom[x]]

\* time.Now() moves on.
Tick ==
    /\ ~crashed
    /\ now + TickSeconds <= MaxTime
    /\ now' = now + TickSeconds
    /\ UNCHANGED <<clients, lastPing, regPc, connID, rlReg, cleanup, lastGet,
                   getSeq, crashed>>
    /\ UNCHANGED pingFrom
    /\ UNCHANGED otherThanReg

\* ServeConn up to "c.clientID = negMsg.ClientID": the negotiation frame is an
\* auth_request and authFunc accepts it (ok), or the connection is closed.
ServeConnAuth(c, id, ok) ==
    /\ ~crashed
    /\ regPc[c] = "accept"
    /\ IF ok
          THEN /\ connID' = [connID EXCEPT ![c] = id]
               /\ regPc' = [regPc EXCEPT ![c] = "ping"]
          ELSE /\ regPc' = [regPc EXCEPT ![c] = "closed"]
               /\ UNCHANGED connID
    /\ UNCHANGED <<now, clients, lastPing, rlReg, cleanup, lastGet, getSeq, crashed>>
    /\ UNCHANGED pingFrom
    /\ UNCHANGED otherThanReg

\* ServeConn, "s.lastPing[negMsg.ClientID] = time.Now()": the map write
\* starts.  clientsMu is not held, so the write is not excluded by the
\* critical sections of the other tasks, nor by the same write of another
\* ServeConn.
PingWriteBegin(c) ==
    /\ ~crashed
    /\ regPc[c] = "ping"
    /\ regPc' = [regPc EXCEPT ![c] = "pingWriting"]
    /\ UNCHANGED <<now, clients, lastPing, connID, rlReg, cleanup, lastGet,
                   getSeq, crashed>>
    /\ UNCHANGED pingFrom
    /\ UNCHANGED otherThanReg

\* Some ServeConn is in the middle of its unlocked write to s.lastPing.
UnlockedWriteBy(c) == regPc[c] = "pingWriting"

\* An access to s.lastPing by task `self` overlaps an unlocked write of
\* another task: a data race on a Go map.
Races(self) == \E c \in Conns : c # self /\ UnlockedWriteBy(c)

\* The values s.lastPing can have after a write of m[k] = v (or, with del,
\* of delete(m, k)) that raced with another write: the write took effect, it
\* was lost, or the key was lost.
RacyWrites(m, k, v, del) ==
    {IF del THEN MapDelete(m, k) ELSE MapPut(m, k, v), m, MapDelete(m, k)}

\* What a racing read of s.lastPing[id] can give: the key missing, or any
\* time.
NoPing == [ok |-> FALSE, t |-> 0]

RacyReads == {NoPing} \cup {[ok |-> TRUE, t |-> t] : t \in Times}

ReadPing(id) ==
    IF id \in DOMAIN lastPing THEN [ok |-> TRUE, t |-> lastPing[id]] ELSE NoPing

\* ServeConn: the map write of "s.lastPing[...] = time.Now()" completes.  If
\* another unlocked write overlapped it, the runtime aborts ("concurrent map
\* writes") or the map is left with any content.
PingWriteEnd(c) ==
    /\ ~crashed
    /\ regPc[c] = "pingWriting"
    /\ regPc' = [regPc EXCEPT ![c] = "sendAuthOK"]
    /\ IF Races(c)
          THEN \/ crashed' = TRUE /\ UNCHANGED lastPing
               \/ lastPing' \in RacyWrites(lastPing, connID[c], now, FALSE) /\ UNCHANGED crashed
          ELSE /\ lastPing' = MapPut(lastPing, connID[c], now)
               /\ UNCHANGED crashed
    /\ UNCHANGED <<now, clients, connID, rlReg, cleanup, lastGet, getSeq>>
    /\ pingFrom' = PingFromAfter(c, connID[c])
    /\ UNCHANGED otherThanReg

\* ServeConn: SendNegotiation(auth_ok); on error conn.Close() and return
\* (the lastPing entry written above stays).  Then EnableCompression.
ServeConnAuthOK(c, ok) ==
    /\ ~crashed
    /\ regPc[c] = "sendAuthOK"
    /\ regPc' = [regPc EXCEPT ![c] = IF ok THEN "register" ELSE "closed"]
    /\ UNCHANGED <<now, clients, lastPing, connID, rlReg, cleanup, lastGet,
                   getSeq, crashed>>
    /\ UNCHANGED pingFrom
    /\ UNCHANGED otherThanReg

\* ServeConn: under clientsMu, s.clients[negMsg.ClientID] = c.
ServeConnRegister(c) ==
    /\ ~crashed
    /\ regPc[c] = "register"
    /\ clients' = MapPut(clients, connID[c], c)
    /\ regPc' = [regPc EXCEPT ![c] = "start"]
    /\ UNCHANGED <<now, lastPing, connID, rlReg, cleanup, lastGet, getSeq, crashed>>
    /\ UNCHANGED pingFrom
    /\ UNCHANGED otherThanReg

\* ServeConn: c.StartReadLoop() and "go func() { ... }", the cleanup
\* goroutine; ServeConn returns.
ServeConnStart(c) ==
    /\ ~crashed
    /\ regPc[c] = "start"
    /\ rlReg' = [rlReg EXCEPT ![c] = "running"]
    /\ cleanup' = [cleanup EXCEPT ![c] = "sleep"]
    /\ regPc' = [regPc EXCEPT ![c] = "serving"]
    /\ UNCHANGED <<now, clients, lastPing, connID, lastGet, getSeq, crashed>>
    /\ UNCHANGED pingFrom
    /\ UNCHANGED otherThanReg

\* readLoop of c returns (decode error, peer gone); connClosed does nothing.
ReadLoopExitReg(c) ==
    /\ ~crashed
    /\ rlReg[c] = "running"
    /\ rlReg' = [rlReg EXCEPT ![c] = "done"]
    /\ UNCHANGED <<now, clients, lastPing, regPc, connID, cleanup, lastGet,
                   getSeq, crashed>>
    /\ UNCHANGED pingFrom
    /\ UNCHANGED otherThanReg

\* c.Dec is set by NewConnection and by the read loop (to a new decoder on
\* the gzip reader); nothing ever sets it to nil.
DecIsNil(c) == FALSE

\* The cleanup goroutine: time.Sleep(1 * time.Second) returns.
CleanupWake(c) ==
    /\ ~crashed
    /\ cleanup[c] = "sleep"
    /\ cleanup' = [cleanup EXCEPT ![c] = "check"]
    /\ UNCHANGED <<now, clients, lastPing, regPc, connID, rlReg, lastGet,
                   getSeq, crashed>>
    /\ UNCHANGED pingFrom
    /\ UNCHANGED otherThanReg

\* The cleanup goroutine: "if c.Dec == nil { break }", and after the loop,
\* under clientsMu, delete(s.clients, id); delete(s.lastPing, id).
CleanupCheck(c) ==
    /\ ~crashed
    /\ cleanup[c] = "check"
    /\ IF DecIsNil(c)
          THEN /\ cleanup' = [cleanup EXCEPT ![c] = "done"]
               /\ clients' = MapDelete(clients, connID[c])
               /\ IF Races(c)
                     THEN \/ crashed' = TRUE /\ UNCHANGED lastPing
                          \/ lastPing' \in RacyWrites(lastPing, connID[c], now, TRUE) /\ UNCHANGED crashed
                     ELSE /\ lastPing' = MapDelete(lastPing, connID[c])
                          /\ UNCHANGED crashed
          ELSE /\ cleanup' = [cleanup EXCEPT ![c] = "sleep"]
               /\ UNCHANGED <<clients, lastPing, crashed>>
    /\ UNCHANGED <<now, regPc, connID, rlReg, lastGet, getSeq>>
    /\ pingFrom' = PingFromAfter(0, "")
    /\ UNCHANGED otherThanReg

\* handlePing, run for a Ping request the read loop of c decoded: under
\* clientsMu, s.lastPing[ctx.ClientID()] = time.Now(); then respond "pong".
handlePing(c) ==
    /\ ~crashed
    /\ rlReg[c] = "running"
    /\ IF Races(c)
          THEN \/ crashed' = TRUE /\ UNCHANGED lastPing
               \/ lastPing' \in RacyWrites(lastPing, connID[c], now, FALSE) /\ UNCHANGED crashed
          ELSE /\ lastPing' = MapPut(lastPing, connID[c], now)
               /\ UNCHANGED crashed
    /\ UNCHANGED <<now, clients, regPc, connID, rlReg, cleanup, lastGet,
                   getSeq>>
    /\ pingFrom' = PingFromAfter(c, connID[c])
    /\ UNCHANGED otherThanReg

\* GetClientByID(id) with `read` what "s.lastPing[clientID]" gave: under
\* clientsMu, nil when s.clients has no id; nil and both entries deleted when
\* the ping is missing or older than the timeout; the connection otherwise.
GetClientByIDWith(id, read) ==
    /\ getSeq' = 1 - getSeq
    /\ IF id \notin DOMAIN clients
          THEN /\ lastGet' = [id |-> id, ret |-> {}]
               /\ UNCHANGED <<clients, lastPing>>
          ELSE IF ~read.ok \/ now - read.t > DefaultHeartbeatTimeout
                  THEN /\ clients' = MapDelete(clients, id)
                       /\ lastPing' = MapDelete(lastPing, id)
                       /\ lastGet' = [id |-> id, ret |-> {}]
                  ELSE /\ lastGet' = [id |-> id, ret |-> {clients[id]}]
                       /\ UNCHANGED <<clients, lastPing>>
    /\ UNCHANGED crashed

\* GetClientByID(id) called by some task (Server.Call and its siblings, or
\* the embedder).  When the read of s.lastPing overlaps an unlocked write,
\* the runtime aborts ("concurrent map read and map write") or the read gives
\* anything.
GetClientByID(id) ==
    /\ ~crashed
    /\ IF id \in DOMAIN clients /\ Races(0)
          THEN \/ /\ crashed' = TRUE
                  /\ UNCHANGED <<clients, lastPing, lastGet, getSeq>>
               \/ \E read \in RacyReads : GetClientByIDWith(id, read)
          ELSE GetClientByIDWith(id, ReadPing(id))
    /\ UNCHANGED <<now, regPc, connID, rlReg, cleanup>>
    /\ pingFrom' = PingFromAfter(0, "")
    /\ UNCHANGED otherThanReg

InitReg == CorrOff /\ SendOff /\ HSOff /\ NewServer /\ ACOff /\ RTOff /\ CancelOff /\ LockOff /\ RegistryOff

NextReg ==
    \/ Tick
    \/ \E c \in Conns : \E id \in ClientIDs : \E ok \in BOOLEAN : ServeConnAuth(c, id, ok)
    \/ \E c \in Conns : PingWriteBegin(c)
    \/ \E c \in Conns : PingWriteEnd(c)
    \/ \E c \in Conns : \E ok \in BOOLEAN : ServeConnAuthOK(c, ok)
    \/ \E c \in Conns : ServeConnRegister(c)
    \/ \E c \in Conns : ServeConnStart(c)
    \/ \E c \in Conns : ReadLoopExitReg(c)
    \/ \E c \in Conns : CleanupWake(c)
    \/ \E c \in Conns : CleanupCheck(c)
    \/ \E c \in Conns : handlePing(c)
    \/ \E id \in ClientIDs : GetClientByID(id)

SpecReg == InitReg /\ [][NextReg]_vars

\* The goroutines of the server run: the Go scheduler lets every runnable
\* goroutine take its next step.  The clock, the peers and the callers of
\* GetClientByID are under no obligation.
FairSpecReg ==
    /\ SpecReg
    /\ \A c \in Conns :
          /\ WF_vars(PingWriteBegin(c))
          /\ WF_vars(PingWriteEnd(c))
          /\ WF_vars(ServeConnRegister(c))
          /\ WF_vars(ServeConnStart(c))
          /\ WF_vars(CleanupWake(c))
          /\ WF_vars(CleanupCheck(c))

\* ------------------------------------------------------------------------
\* Claims about the registry (checked under SpecReg and FairSpecReg)
\* ------------------------------------------------------------------------

Registered(id) == id \in DOMAIN clients

\* now - lastPing[id] <= 40 s.
FreshPing(id) == id \in DOMAIN lastPing /\ now - lastPing[id] <= 40

\* C6: each time GetClientByID(id) returns, it returns a connection (the
\* registered one) if and only if id is registered and now - lastPing[id] <=
\* 40 s; when id is registered with an older ping it returns nil and id is in
\* neither map afterwards; and an id comes back into s.clients only by a
\* ServeConn that registers it, so every later query returns nil until then.
C6_HeartbeatLiveness ==
    [][/\ getSeq' # getSeq =>
             LET id == lastGet'.id
             IN  /\ (lastGet'.ret # {}) <=> (Registered(id) /\ FreshPing(id))
                 /\ lastGet'.ret # {} => lastGet'.ret = {clients[id]}
                 /\ (Registered(id) /\ ~FreshPing(id)) =>
                        /\ id \notin DOMAIN clients'
                        /\ id \notin DOMAIN lastPing'
       /\ \A id \in ClientIDs :
             (~Registered(id) /\ id \in DOMAIN clients') =>
                 \E c \in Conns : /\ connID[c] = id
                                  /\ regPc[c] = "register"
                                  /\ regPc'[c] = "start"]_vars

\* C6 witness: GetClientByID has just returned nil for an id whose ping was
\* older than 40 s and the id is gone from both maps.
C6_Witness ==
    /\ lastGet.id \in ClientIDs
    /\ lastGet.ret = {}
    /\ lastGet.id \notin DOMAIN clients
    /\ lastGet.id \notin DOMAIN lastPing
    /\ \E c \in Conns : connID[c] = lastGet.id /\ regPc[c] = "serving"
    /\ now > 40

\* C7: once the read loop of a registered connection has exited, the
\* connection's entry eventually leaves s.clients (and its id s.lastPing),
\* whether or not the clock advances or GetClientByID is called.
C7_ExitDeregisters ==
    \A c \in Conns :
        (rlReg[c] = "done" /\ ~crashed)
            ~> (crashed \/ ~(Registered(connID[c]) /\ clients[connID[c]] = c))

\* C7 witness: the read loop of a connection is gone, its cleanup goroutine
\* has polled c.Dec at least once more, and the connection is still in
\* s.clients.
C7_Witness ==
    \E c \in Conns :
        /\ rlReg[c] = "done"
        /\ cleanup[c] = "check"
        /\ Registered(connID[c]) /\ clients[connID[c]] = c
        /\ connID[c] \in DOMAIN lastPing

\* ------------------------------------------------------------------------
\* AutoClient: Start, connectOnce, the reconnect loop, the slot (SpecAC)
\* ------------------------------------------------------------------------

ACConns == 1..MaxConnections

\* time.Duration is an int64 count of nanoseconds.  The model keeps it as
\* four 16-bit limbs, lowest first, so that its arithmetic wraps at 2^64 as
\* it does in Go.
Limb == 2^16

\* The duration of n nanoseconds, for 0 <= n < 2^31.
ToDuration(n) == <<n % Limb, (n \div Limb) % Limb, 0, 0>>

Second == ToDuration(1000000000)

\* d * k in int64 arithmetic, for a small k >= 0.
Mul(d, k) ==
    LET p1 == d[1] * k
        p2 == d[2] * k + (p1 \div Limb)
        p3 == d[3] * k + (p2 \div Limb)
        p4 == d[4] * k + (p3 \div Limb)
    IN  <<p1 % Limb, p2 % Limb, p3 % Limb, p4 % Limb>>

\* The sign bit of an int64.
Negative(d) == d[4] >= Limb \div 2

\* a > b on int64 values.
Greater(a, b) ==
    IF Negative(a) # Negative(b)
       THEN Negative(b)
       ELSE \E i \in 1..4 : /\ a[i] > b[i]
                            /\ \A j \in (i + 1)..4 : a[j] = b[j]

\* d << s on an int64: the bits shifted out at the top are lost.
RECURSIVE ShiftLeft(_, _)
ShiftLeft(d, s) == IF s = 0 THEN d ELSE ShiftLeft(Mul(d, 2), s - 1)

backoffDuration(n) ==
    LET base == Mul(Second, 2)
        shifted == ShiftLeft(base, n - 1)
        threeMinutes == Mul(Second, 3 * 60)
    IN  IF Greater(shifted, threeMinutes) THEN threeMinutes ELSE shifted

CallKinds == {"Call", "CallWithResult", "CallAsync", "CallAsyncWithResult"}

NoCall == [kind |-> "none", used |-> "none"]

NewAutoClient ==
    /\ acPc = "new"
    /\ inLoop = FALSE
    /\ ready = <<>>
    /\ startRet = "none"
    /\ attempt = 1
    /\ delay = ToDuration(0)
    /\ lastErr = FALSE
    /\ acConns = [c \in ACConns |-> "unopened"]
    /\ activeConn = {}
    /\ lastCall = NoCall

\* The connection that connectOnce is setting up.
Opening == CHOOSE c \in ACConns : acConns[c] = "open"

\* The connection in the slot has its read loop running.
PublishedAlive == \E c \in activeConn : acConns[c] = "live"

\* ac.IsConnected()
IsConnected == activeConn # {}

\* Start: launches the goroutine that runs the first connectOnce and waits
\* on the channel ready.
Start ==
    /\ acPc = "new"
    /\ acPc' = "dial"
    /\ startRet' = "pending"
    /\ UNCHANGED <<inLoop, ready, attempt, delay, lastErr, acConns, activeConn,
                   lastCall>>
    /\ UNCHANGED otherThanAC

\* What the caller of connectOnce does when it returns.  Start's goroutine
\* puts the result on ready and, on success, starts ac.loop() (attempt := 1).
\* The loop computes the backoff delay from attempt on failure and sets
\* attempt back to 1 on success.
ConnectOnceReturns(err) ==
    /\ lastErr' = err
    /\ IF ~inLoop
          THEN /\ ready' = <<err>>
               /\ acPc' = IF err THEN "exit" ELSE "top"
               /\ inLoop' = ~err
               /\ UNCHANGED <<attempt, delay>>
          ELSE /\ acPc' = IF err THEN "sleep" ELSE "top"
               /\ delay' = IF err THEN backoffDuration(attempt) ELSE delay
               /\ attempt' = IF err THEN attempt ELSE 1
               /\ UNCHANGED <<ready, inLoop>>

\* connectOnce: net.Dial / tls.Dial.
Dial(ok) ==
    /\ acPc = "dial"
    /\ IF ok
          THEN /\ \E c \in ACConns :
                     /\ acConns[c] = "unopened"
                     /\ \A b \in 1..(c - 1) : acConns[b] # "unopened"
                     /\ acConns' = [acConns EXCEPT ![c] = "open"]
               /\ acPc' = "handshake"
               /\ UNCHANGED <<inLoop, ready, attempt, delay, lastErr>>
          ELSE /\ ConnectOnceReturns(TRUE)
               /\ UNCHANGED acConns
    /\ UNCHANGED <<startRet, activeConn, lastCall>>
    /\ UNCHANGED otherThanAC

\* connectOnce after the dial: the negotiation, and then either conn.Close()
\* and an error, or StartReadLoop, activeConn.Store(c), onReady(c) and nil.
Handshake(ok) ==
    /\ acPc = "handshake"
    /\ IF ok
          THEN /\ acConns' = [acConns EXCEPT ![Opening] = "live"]
               /\ activeConn' = {Opening}
               /\ ConnectOnceReturns(FALSE)
          ELSE /\ acConns' = [acConns EXCEPT ![Opening] = "closed"]
               /\ UNCHANGED activeConn
               /\ ConnectOnceReturns(TRUE)
    /\ UNCHANGED <<startRet, lastCall>>
    /\ UNCHANGED otherThanAC

\* loop: the select takes its default branch (nothing ever closes or sends
\* on stopChan) and calls connectOnce.
LoopIterate ==
    /\ acPc = "top"
    /\ acPc' = "dial"
    /\ UNCHANGED <<inLoop, ready, startRet, attempt, delay, lastErr, acConns,
                   activeConn, lastCall>>
    /\ UNCHANGED otherThanAC

\* loop: time.Sleep(delay) returns (at once when delay <= 0); attempt++.
Sleep ==
    /\ acPc = "sleep"
    /\ attempt < MaxAttempt
    /\ attempt' = attempt + 1
    /\ acPc' = "top"
    /\ UNCHANGED <<inLoop, ready, startRet, delay, lastErr, acConns, activeConn,
                   lastCall>>
    /\ UNCHANGED otherThanAC

\* Start: the select receives the result of the first connectOnce.
StartReturn ==
    /\ startRet = "pending"
    /\ ready # <<>>
    /\ startRet' = IF ready[1] THEN "err" ELSE "nil"
    /\ ready' = <<>>
    /\ UNCHANGED <<acPc, inLoop, attempt, delay, lastErr, acConns, activeConn,
                   lastCall>>
    /\ UNCHANGED otherThanAC

\* Start: five seconds have passed; "initial connection timeout".
StartTimeout ==
    /\ startRet = "pending"
    /\ startRet' = "timeout"
    /\ UNCHANGED <<acPc, inLoop, ready, attempt, delay, lastErr, acConns,
                   activeConn, lastCall>>
    /\ UNCHANGED otherThanAC

\* The read loop of a live connection terminates (peer gone, decode error).
ConnLost(c) ==
    /\ acConns[c] = "live"
    /\ acConns' = [acConns EXCEPT ![c] = "dead"]
    /\ UNCHANGED <<acPc, inLoop, ready, startRet, attempt, delay, lastErr,
                   activeConn, lastCall>>
    /\ UNCHANGED otherThanAC

\* AutoClient.Call, CallWithResult, CallAsync, CallAsyncWithResult: load the
\* slot; nil gives "client is not connected", otherwise the call is made on
\* the connection found there.
AutoCall(k) ==
    /\ lastCall' = [kind |-> k,
                    used |-> IF activeConn = {} THEN "notConnected"
                             ELSE IF PublishedAlive THEN "live" ELSE "dead"]
    /\ lastCall' # lastCall
    /\ UNCHANGED <<acPc, inLoop, ready, startRet, attempt, delay, lastErr,
                   acConns, activeConn>>
    /\ UNCHANGED otherThanAC

InitAC ==
    CorrOff /\ SendOff /\ HSOff /\ RegOff /\ NewAutoClient /\ RTOff /\ CancelOff /\ LockOff /\ RegistryOff

NextAC ==
    \/ Start
    \/ \E ok \in BOOLEAN : Dial(ok)
    \/ \E ok \in BOOLEAN : Handshake(ok)
    \/ LoopIterate
    \/ Sleep
    \/ StartReturn
    \/ StartTimeout
    \/ \E c \in ACConns : ConnLost(c)
    \/ \E k \in CallKinds : AutoCall(k)

SpecAC == InitAC /\ [][NextAC]_vars

\* ------------------------------------------------------------------------
\* Claims about the auto-client (checked under SpecAC)
\* ------------------------------------------------------------------------

LiveConns == {c \in ACConns : acConns[c] = "live"}

\* C8: the reconnect loop leaves the dial of a new connection only when the
\* published connection has been lost, and at most one connection opened by
\* the auto-client has its read loop running at any time.
C8_ReconnectOnlyOnLoss ==
    [][/\ (inLoop /\ acPc = "dial" /\ acPc' # "dial") => ~PublishedAlive
       /\ Cardinality(LiveConns') <= 1]_vars

\* C8 witness: two connections opened by the auto-client are live at once.
C8_Witness == Cardinality(LiveConns) >= 2

\* min(2^(n-1) * 2 s, 3 min), in seconds.
ExpectedSeconds(n) == IF n >= 8 THEN 3 * 60 ELSE 2^n

\* C9: whenever the loop sleeps after the attempt-th consecutive failure, the
\* delay is min(2^(attempt-1) * 2 s, 3 min), it is not above the delay of the
\* next attempt, which is not above 3 min; and when the loop comes back to
\* its top after a successful connectOnce, attempt is 1.
C9_ReconnectMonotonicity ==
    /\ acPc = "sleep" =>
          /\ delay = Mul(Second, ExpectedSeconds(attempt))
          /\ ~Greater(delay, backoffDuration(attempt + 1))
          /\ ~Greater(backoffDuration(attempt + 1), Mul(Second, 3 * 60))
    /\ (inLoop /\ acPc = "top" /\ ~lastErr) => attempt = 1

\* C9 witness: the loop sleeps after its 34th consecutive failure, with a
\* negative delay.
C9_Witness ==
    /\ acPc = "sleep"
    /\ attempt = 34
    /\ Negative(delay)

\* C10: IsConnected() is true only while the published connection's read
\* loop runs, and no call on the auto-client is made on a connection whose
\* read loop has terminated.
C10_SlotEmptyWhenDisconnected ==
    /\ IsConnected => PublishedAlive
    /\ lastCall.used # "dead"

\* C10 witness: the published connection is lost, IsConnected() is true and
\* a call on the auto-client has used the dead connection.
C10_Witness ==
    /\ IsConnected
    /\ ~PublishedAlive
    /\ lastCall.used = "dead"

\* ------------------------------------------------------------------------
\* Calls in both directions on one established connection (SpecRPC)
\* ------------------------------------------------------------------------

Endpoints == {"server", "client"}

Peer(e) == IF e = "server" THEN "client" ELSE "server"

RpcIds == 1..NumRpcCalls

SymIds == 1..NumSymCalls

\* The methods the embedders registered, as in the repository's tests: the
\* server answers Divide, the client answers Multiply.
Handlers(e) == IF e = "server" THEN {"Divide"} ELSE {"Multiply"}

Methods == {"Divide", "Multiply"}

\* A nil pointer or nil interface, and a value behind one.
Nil == <<>>

Ptr(v) == <<v>>

\* RPCMessage, without the parameters.
RPCMessage(type, id, method, result, error, errorCode) ==
    [type |-> type, id |-> id, method |-> method, result |-> result,
     error |-> error, errorCode |-> errorCode]

RPCFields == {"type", "id", "method", "result", "error", "errorCode"}

\* The zero value of a field of RPCMessage.
ZeroValue(f) ==
    CASE f = "type" -> ""
      [] f = "id" -> 0
      [] f = "method" -> ""
      [] f = "result" -> Nil
      [] f = "error" -> Nil
      [] f = "errorCode" -> 0

\* An encoder for which a pointer to an empty string is empty as well.
EncodeMutEmptyString(msg) ==
    [f \in {g \in RPCFields :
                \/ g = "type"
                \/ msg[g] # ZeroValue(g) /\ ~(g = "error" /\ msg[g] = Ptr(""))}
        |-> msg[f]]

\* json.Encoder.Encode(msg): the JSON object has the field "type" and, of
\* the fields tagged omitempty, those that are not empty (a non-nil pointer
\* to an empty string is not empty).
Encode(msg) ==
    [f \in {g \in RPCFields : g = "type" \/ msg[g] # ZeroValue(g)} |-> msg[f]]

\* json.Decoder.Decode(&msg) into a fresh RPCMessage: absent fields keep
\* their zero value.
Decode(j) == [f \in RPCFields |-> IF f \in DOMAIN j THEN j[f] ELSE ZeroValue(f)]

NoResult == [kind |-> "none", code |-> 0, message |-> "", result |-> Nil]

\* &ResponseError{Code: msg.ErrorCode, Message: *msg.Error}
ResponseError(msg) ==
    [kind |-> "ResponseError", code |-> msg.errorCode, message |-> msg.error[1],
     result |-> Nil]

\* fmt.Errorf("error code %d: %s", msg.ErrorCode, *msg.Error)
ErrorString(msg) ==
    [kind |-> "errorString", code |-> 0,
     message |-> "error code " \o ToString(msg.errorCode) \o ": " \o msg.error[1],
     result |-> Nil]

Returned(res) == [kind |-> "result", code |-> 0, message |-> "", result |-> res]

Failed(how) == [kind |-> how, code |-> 0, message |-> "", result |-> Nil]

IdleCall ==
    [from |-> "none", kind |-> "none", method |-> "", pc |-> "idle",
     outcome |-> NoResult, dest |-> Nil]

\* What a handler does with its Context: WriteResponse(result) or
\* WriteError(code, message).
Replies ==
    {[ok |-> TRUE, code |-> 0, message |-> "", result |-> 20],
     [ok |-> FALSE, code |-> 44, message |-> "division by zero", result |-> 0],
     [ok |-> FALSE, code |-> 0, message |-> "", result |-> 0]}

\* The handlers of SpecSym answer with a result or with one error.
SymReplies == {reply \in Replies : reply.ok \/ reply.code # 0}

\* The state once the handshake is over (or, with established false, before
\* any connection exists), with room for the calls of ids.
RPCInit(ids) ==
    \E established \in BOOLEAN :
        /\ rtCalls = [i \in ids |-> IdleCall]
        /\ rtPending = [e \in Endpoints |-> {}]
        /\ rtInbox = [i \in ids |-> <<>>]
        /\ rtWire = [e \in Endpoints |-> <<>>]
        /\ rtRl = [e \in Endpoints |-> IF established THEN "running" ELSE "off"]
        /\ rtJobs = {}
        /\ rtResp = [i \in ids |-> <<>>]
        /\ rtErrSeen = FALSE
        /\ rtRegistered = established
        /\ rtSlot = established

\* The transport is open: Encode and Flush succeed.
TransportUp == \A e \in Endpoints : rtRl[e] = "running"

\* ctx.conn.Send(msg) / c.Send(msg) by endpoint e: the frame goes on the
\* wire when the transport is open, and is lost with an error otherwise.
WireAfterSend(e, msg) ==
    IF TransportUp
       THEN [rtWire EXCEPT ![Peer(e)] = Append(@, Encode(msg))]
       ELSE rtWire

\* What the router of endpoint e finds: Server.Call and its siblings ask
\* GetClientByID(clientID), AutoClient.Call and its siblings load activeConn.
Routed(e) == IF e = "server" THEN rtRegistered ELSE rtSlot

\* Nothing that carries id i is left anywhere.
NoTraceOf(i) ==
    /\ rtInbox[i] = <<>>
    /\ \A e \in Endpoints :
          /\ i \notin rtPending[e]
          /\ \A n \in 1..Len(rtWire[e]) : Decode(rtWire[e][n]).id # i
    /\ \A job \in rtJobs : job.id # i

\* uuid.NewString(): the id of a new call is one that nothing carries.  The
\* model takes the lowest id whose previous call has returned and left no
\* trace.
FreshId(i) ==
    /\ rtCalls[i].pc \in {"idle", "done"}
    /\ NoTraceOf(i)
    /\ \A j \in 1..(i - 1) : ~(rtCalls[j].pc \in {"idle", "done"} /\ NoTraceOf(j))

Issued(e, k, m) == [IdleCall EXCEPT !.from = e, !.kind = k, !.method = m]

\* The caller of the previous call with this id was given an RPC error.
ErrSeenAfter(i) == rtErrSeen \/ rtCalls[i].outcome.kind \in {"ResponseError", "errorString"}

\* A router that registers the call and writes the request before it looks
\* for the connection.
RouteNotConnectedMutSends(i, e, k, m) ==
    /\ FreshId(i)
    /\ ~Routed(e)
    /\ rtCalls' = [rtCalls EXCEPT ![i] =
                      [Issued(e, k, m) EXCEPT !.pc = "done",
                                              !.outcome = Failed("notConnected")]]
    /\ rtPending' = [rtPending EXCEPT ![e] = @ \cup {i}]
    /\ rtWire' = [rtWire EXCEPT ![Peer(e)] =
                     Append(@, Encode(RPCMessage("request", i, m, Nil, Nil, 0)))]
    /\ rtResp' = [rtResp EXCEPT ![i] = <<>>]
    /\ rtErrSeen' = ErrSeenAfter(i)
    /\ UNCHANGED <<rtInbox, rtRl, rtJobs, rtRegistered, rtSlot>>
    /\ UNCHANGED otherThanRT

\* Server.Call / CallWithResult / CallAsync / CallAsyncWithResult when
\* GetClientByID returns nil, and the same primitives of AutoClient when
\* activeConn.Load() is nil: return the "not connected" error.
RouteNotConnected(i, e, k, m) ==
    /\ FreshId(i)
    /\ ~Routed(e)
    /\ rtCalls' = [rtCalls EXCEPT ![i] =
                      [Issued(e, k, m) EXCEPT !.pc = "done",
                                              !.outcome = Failed("notConnected")]]
    /\ rtResp' = [rtResp EXCEPT ![i] = <<>>]
    /\ rtErrSeen' = ErrSeenAfter(i)
    /\ UNCHANGED <<rtPending, rtInbox, rtWire, rtRl, rtJobs, rtRegistered, rtSlot>>
    /\ UNCHANGED otherThanRT

\* The routers delegate to the connection's primitive: Call / CallAsync
\* register the inbox and Send the Request frame.  When Send fails the entry
\* is deleted and the error is returned (or handed to the callback).
RouteCall(i, e, k, m) ==
    /\ FreshId(i)
    /\ Routed(e)
    /\ IF TransportUp
          THEN /\ rtCalls' = [rtCalls EXCEPT ![i] =
                                 [Issued(e, k, m) EXCEPT !.pc = "waiting"]]
               /\ rtPending' = [rtPending EXCEPT ![e] = @ \cup {i}]
               /\ rtWire' = WireAfterSend(e, RPCMessage("request", i, m, Nil, Nil, 0))
          ELSE /\ rtCalls' = [rtCalls EXCEPT ![i] =
                                 [Issued(e, k, m) EXCEPT !.pc = "done",
                                                         !.outcome = Failed("sendError")]]
               /\ UNCHANGED <<rtPending, rtWire>>
    /\ rtResp' = [rtResp EXCEPT ![i] = <<>>]
    /\ rtErrSeen' = ErrSeenAfter(i)
    /\ UNCHANGED <<rtInbox, rtRl, rtJobs, rtRegistered, rtSlot>>
    /\ UNCHANGED otherThanRT

\* The frame the read loop of e decodes next.
Incoming(e) == Decode(Head(rtWire[e]))

\* A read loop that runs the handler itself, fn(ctx) in place of go fn(ctx):
\* it decodes nothing while a handler of its endpoint has not returned.
CanReadMutInline(e) ==
    /\ rtRl[e] = "running"
    /\ rtWire[e] # <<>>
    /\ \A job \in rtJobs : job.at # e

CanRead(e) == rtRl[e] = "running" /\ rtWire[e] # <<>>

\* A read loop that hands a Response to whichever call is waiting, without
\* looking at the id or at the endpoint that issued the call.
RpcHandleResponseMutAnyCall(e) ==
    /\ CanRead(e)
    /\ Incoming(e).type = "response"
    /\ rtWire' = [rtWire EXCEPT ![e] = Tail(@)]
    /\ LET waiting == {j \in DOMAIN rtCalls : rtCalls[j].pc = "waiting"}
       IN  IF waiting # {}
              THEN LET j == CHOOSE w \in waiting : \A v \in waiting : w <= v
                   IN  /\ rtInbox' = [rtInbox EXCEPT ![j] = Append(@, Incoming(e))]
                       /\ rtPending' = [f \in Endpoints |-> rtPending[f] \ {j}]
              ELSE UNCHANGED <<rtInbox, rtPending>>
    /\ UNCHANGED <<rtCalls, rtRl, rtJobs, rtResp, rtErrSeen, rtRegistered, rtSlot>>
    /\ UNCHANGED otherThanRT

\* handleMessage, case ResponseType: deliver to the inbox registered for
\* msg.ID and delete the entry, or drop the frame.
RpcHandleResponse(e) ==
    /\ CanRead(e)
    /\ Incoming(e).type = "response"
    /\ rtWire' = [rtWire EXCEPT ![e] = Tail(@)]
    /\ LET msg == Incoming(e)
       IN  IF msg.id \in rtPending[e]
              THEN /\ rtInbox' = [rtInbox EXCEPT ![msg.id] = Append(@, msg)]
                   /\ rtPending' = [rtPending EXCEPT ![e] = @ \ {msg.id}]
              ELSE UNCHANGED <<rtInbox, rtPending>>
    /\ UNCHANGED <<rtCalls, rtRl, rtJobs, rtResp, rtErrSeen, rtRegistered, rtSlot>>
    /\ UNCHANGED otherThanRT

\* handleMessage, case RequestType, handler found: "go fn(ctx)".
RpcDispatch(e) ==
    /\ CanRead(e)
    /\ Incoming(e).type = "request"
    /\ Incoming(e).method \in Handlers(e)
    /\ rtWire' = [rtWire EXCEPT ![e] = Tail(@)]
    /\ rtJobs' = rtJobs \cup {[at |-> e, id |-> Incoming(e).id,
                               method |-> Incoming(e).method]}
    /\ UNCHANGED <<rtCalls, rtPending, rtInbox, rtRl, rtResp, rtErrSeen,
                   rtRegistered, rtSlot>>
    /\ UNCHANGED otherThanRT

\* handleMessage, case RequestType, no handler: ctx.WriteError(404, "method
\* not found") on the read loop's goroutine; the result of Send is dropped.
RpcNotFound(e) ==
    /\ CanRead(e)
    /\ Incoming(e).type = "request"
    /\ Incoming(e).method \notin Handlers(e)
    /\ LET id == Incoming(e).id
           msg == RPCMessage("response", id, "", Nil, Ptr("method not found"), 404)
       IN  /\ rtWire' = [WireAfterSend(e, msg) EXCEPT ![e] = Tail(@)]
           /\ rtResp' = [rtResp EXCEPT ![id] = Append(@, msg)]
    /\ UNCHANGED <<rtCalls, rtPending, rtInbox, rtRl, rtJobs, rtErrSeen,
                   rtRegistered, rtSlot>>
    /\ UNCHANGED otherThanRT

\* ctx.WriteResponse(result) and ctx.WriteError(code, message): the message
\* they build for the request with this id.
ReplyMessage(id, reply) ==
    IF reply.ok
       THEN RPCMessage("response", id, "", Ptr(reply.result), Nil, 0)
       ELSE RPCMessage("response", id, "", Nil, Ptr(reply.message), reply.code)

\* A handler goroutine runs and answers with ctx.WriteResponse(result) or
\* ctx.WriteError(code, message); the result of Send is dropped.
RpcHandler(job, reply) ==
    /\ job \in rtJobs
    /\ rtJobs' = rtJobs \ {job}
    /\ rtWire' = WireAfterSend(job.at, ReplyMessage(job.id, reply))
    /\ rtResp' = [rtResp EXCEPT ![job.id] = Append(@, ReplyMessage(job.id, reply))]
    /\ UNCHANGED <<rtCalls, rtPending, rtInbox, rtRl, rtErrSeen, rtRegistered, rtSlot>>
    /\ UNCHANGED otherThanRT

\* What the caller observes for a delivered message: Call and
\* CallWithResult return a ResponseError or the result; the callback of
\* CallAsync and CallAsyncWithResult gets an error built by fmt.Errorf or
\* the result.
OutcomeFor(k, msg) ==
    IF msg.error # Nil
       THEN IF k \in {"Call", "CallWithResult"}
               THEN ResponseError(msg)
               ELSE ErrorString(msg)
       ELSE Returned(msg.result)

\* CallWithResult and CallAsyncWithResult: decodeInto(resultPtr, res) runs
\* only when there was no error.
DestFor(k, msg, dest) ==
    IF k \in {"CallWithResult", "CallAsyncWithResult"} /\ msg.error = Nil
       THEN msg.result
       ELSE dest

\* "case msg := <-ch" of Call or of the waiter of CallAsync.
RpcRecv(i) ==
    /\ rtCalls[i].pc = "waiting"
    /\ rtInbox[i] # <<>>
    /\ LET msg == Head(rtInbox[i])
           k == rtCalls[i].kind
       IN  rtCalls' = [rtCalls EXCEPT ![i].pc = "done",
                                      ![i].outcome = OutcomeFor(k, msg),
                                      ![i].dest = DestFor(k, msg, @)]
    /\ rtInbox' = [rtInbox EXCEPT ![i] = Tail(@)]
    /\ rtPending' = [rtPending EXCEPT ![rtCalls[i].from] = @ \ {i}]
    /\ UNCHANGED <<rtWire, rtRl, rtJobs, rtResp, rtErrSeen, rtRegistered, rtSlot>>
    /\ UNCHANGED otherThanRT

\* "case <-time.After(timeout)" is taken (the inbox is empty, or the select
\* picks the timer): the entry is deleted and the caller gets the timeout
\* error; a message already in the inbox is lost with the inbox.
RpcTimeout(i) ==
    /\ rtCalls[i].pc = "waiting"
    /\ rtCalls' = [rtCalls EXCEPT ![i].pc = "done", ![i].outcome = Failed("timeout")]
    /\ rtPending' = [rtPending EXCEPT ![rtCalls[i].from] = @ \ {i}]
    /\ rtInbox' = [rtInbox EXCEPT ![i] = <<>>]
    /\ UNCHANGED <<rtWire, rtRl, rtJobs, rtResp, rtErrSeen, rtRegistered, rtSlot>>
    /\ UNCHANGED otherThanRT

\* The transport breaks: the Decode of both read loops fails and they return.
\* Neither the server's registry nor the auto-client's slot is touched.
RpcDisconnect ==
    /\ TransportUp
    /\ rtRl' = [e \in Endpoints |-> "done"]
    /\ UNCHANGED <<rtCalls, rtPending, rtInbox, rtWire, rtJobs, rtResp, rtErrSeen,
                   rtRegistered, rtSlot>>
    /\ UNCHANGED otherThanRT

\* More than DefaultHeartbeatTimeout has passed since the client's last
\* ping: GetClientByID returns nil from here on.
RpcHeartbeatExpires ==
    /\ rtRegistered
    /\ rtRegistered' = FALSE
    /\ UNCHANGED <<rtCalls, rtPending, rtInbox, rtWire, rtRl, rtJobs, rtResp,
                   rtErrSeen, rtSlot>>
    /\ UNCHANGED otherThanRT

\* The steps of the connection once calls are on it.
RpcSteps(ids, replies) ==
    \/ \E e \in Endpoints : RpcHandleResponse(e)
    \/ \E e \in Endpoints : RpcDispatch(e)
    \/ \E e \in Endpoints : RpcNotFound(e)
    \/ \E e \in Endpoints, i \in ids, m \in Methods, reply \in replies :
          RpcHandler([at |-> e, id |-> i, method |-> m], reply)
    \/ \E i \in ids : RpcRecv(i)
    \/ \E i \in ids : RpcTimeout(i)
    \/ RpcDisconnect
    \/ RpcHeartbeatExpires

InitRPC ==
    CorrOff /\ SendOff /\ HSOff /\ RegOff /\ ACOff /\ CancelOff /\ LockOff /\ RegistryOff /\ RPCInit(RpcIds)

NextRPC ==
    \/ \E i \in RpcIds, e \in Endpoints, k \in CallKinds, m \in Methods :
          RouteNotConnected(i, e, k, m)
    \/ \E i \in RpcIds, e \in Endpoints, k \in CallKinds, m \in Methods :
          RouteCall(i, e, k, m)
    \/ RpcSteps(RpcIds, Replies)

SpecRPC == InitRPC /\ [][NextRPC]_vars

InitSym ==
    CorrOff /\ SendOff /\ HSOff /\ RegOff /\ ACOff /\ CancelOff /\ LockOff /\ RegistryOff /\ RPCInit(SymIds)

NextSym ==
    \/ \E i \in SymIds, e \in Endpoints, m \in Methods :
          RouteNotConnected(i, e, "Call", m)
    \/ \E i \in SymIds, e \in Endpoints, m \in Methods :
          RouteCall(i, e, "Call", m)
    \/ RpcSteps(SymIds, SymReplies)

SpecSym == InitSym /\ [][NextSym]_vars

(**************************************************************************)
(* Claims on SpecRPC and SpecSym.                                         *)
(**************************************************************************)

\* The call with id i was sent to a peer that has no handler for its method.
UnknownMethodCall(i) ==
    /\ rtCalls[i].from \in Endpoints
    /\ rtCalls[i].method \notin Handlers(Peer(rtCalls[i].from))

\* The caller of i got what a Response frame carried.
Answered(i) ==
    /\ rtCalls[i].pc = "done"
    /\ rtCalls[i].outcome.kind \in {"ResponseError", "errorString", "result"}

NotFoundMessage(i) ==
    RPCMessage("response", i, "", Nil, Ptr("method not found"), 404)

NotFoundError ==
    [kind |-> "ResponseError", code |-> 404, message |-> "method not found",
     result |-> Nil]

\* C12: a Request whose method the receiving endpoint has not registered is
\* answered by at most one Response, which has the request's id, errorCode
\* 404 and error "method not found"; whatever primitive issued the call, a
\* caller that gets the answer gets the structured error {404, "method not
\* found"} and no result; and the read loops are still running when it does,
\* unless the transport itself broke.
C12_UnknownMethod ==
    \A i \in DOMAIN rtCalls :
        UnknownMethodCall(i) =>
            /\ Len(rtResp[i]) <= 1
            /\ \A n \in 1..Len(rtResp[i]) :
                  /\ rtResp[i][n] = NotFoundMessage(i)
                  /\ Decode(Encode(rtResp[i][n])) = NotFoundMessage(i)
            /\ Answered(i) =>
                  /\ rtResp[i] = <<NotFoundMessage(i)>>
                  /\ rtCalls[i].outcome = NotFoundError
                  /\ rtCalls[i].dest = Nil

\* The case of C12: an unknown-method call has been answered.
C12_Witness ==
    \E i \in DOMAIN rtCalls :
        /\ UnknownMethodCall(i)
        /\ Answered(i)
        /\ rtCalls[i].kind = "CallAsync"
        /\ TransportUp

\* C12 for the blocking primitives, Call and CallWithResult, only.
C12_UnknownMethodBlocking ==
    \A i \in DOMAIN rtCalls :
        (UnknownMethodCall(i) /\ rtCalls[i].kind \in {"Call", "CallWithResult"}) =>
            /\ Len(rtResp[i]) <= 1
            /\ \A n \in 1..Len(rtResp[i]) :
                  /\ rtResp[i][n] = NotFoundMessage(i)
                  /\ Decode(Encode(rtResp[i][n])) = NotFoundMessage(i)
            /\ Answered(i) =>
                  /\ rtResp[i] = <<NotFoundMessage(i)>>
                  /\ rtCalls[i].outcome = NotFoundError
                  /\ rtCalls[i].dest = Nil

\* An unknown-method call was answered and a later call completed with a
\* result on the same connection.
C12_LaterCallCompletes ==
    \E i \in DOMAIN rtCalls :
        /\ rtErrSeen
        /\ ~UnknownMethodCall(i)
        /\ rtCalls[i].pc = "done"
        /\ rtCalls[i].outcome.kind = "result"

\* The blocking caller of i takes a message from its inbox in this step, and
\* the handler of its method had answered it with WriteError.
BlockingCallerGetsHandlerError(i) ==
    /\ rtCalls[i].kind \in {"Call", "CallWithResult"}
    /\ rtCalls[i].method \in Handlers(Peer(rtCalls[i].from))
    /\ rtCalls[i].pc = "waiting"
    /\ rtCalls'[i].pc = "done"
    /\ rtCalls'[i].outcome.kind # "timeout"
    /\ Len(rtResp[i]) = 1
    /\ rtResp[i][1].error # Nil

\* C13: when a handler answered with WriteError(code, message), the
\* blocking caller (Call or CallWithResult) gets a ResponseError with exactly
\* that code and that message and no result, its destination is left as it
\* was, and the step terminates nothing: both read loops, the registry entry
\* and the auto-client's slot are as before.
C13_HandlerError ==
    [][\A i \in DOMAIN rtCalls :
          BlockingCallerGetsHandlerError(i) =>
              /\ rtCalls'[i].outcome =
                    [kind |-> "ResponseError", code |-> rtResp[i][1].errorCode,
                     message |-> rtResp[i][1].error[1], result |-> Nil]
              /\ rtCalls'[i].dest = rtCalls[i].dest
              /\ rtCalls'[i].dest = Nil
              /\ rtRl' = rtRl
              /\ rtRegistered' = rtRegistered
              /\ rtSlot' = rtSlot]_vars

\* The case of C13: after an earlier call was answered with an error, a
\* CallWithResult got the ResponseError of Divide's handler, its destination
\* is untouched and the connection is up.
C13_Witness ==
    \E i \in DOMAIN rtCalls :
        /\ rtErrSeen
        /\ rtCalls[i].kind = "CallWithResult"
        /\ rtCalls[i].method = "Divide"
        /\ rtCalls[i].pc = "done"
        /\ rtCalls[i].outcome =
              [kind |-> "ResponseError", code |-> 44, message |-> "division by zero",
               result |-> Nil]
        /\ rtCalls[i].dest = Nil
        /\ TransportUp

\* The frames of direction e (those the read loop of e is to decode) that
\* carry id i.
FramesOf(e, i) ==
    {Decode(rtWire[e][n]) : n \in {k \in 1..Len(rtWire[e]) : Decode(rtWire[e][k]).id = i}}

\* What the blocking caller gets for the response msg.
BlockingOutcome(msg) ==
    IF msg.error # Nil THEN ResponseError(msg) ELSE Returned(msg.result)

\* C14: on one established connection with calls of both directions, the
\* request of every call is handled at the peer of its caller (a call the
\* server routed by clientID by the client's handler of that method, a call
\* of the client by the server's), only the caller's own endpoint holds the
\* pending entry, requests travel only towards the peer and responses only
\* back, and a caller that is answered gets the one response written for its
\* own id: the handler's result, or its error.
C14_Symmetry ==
    \A i \in DOMAIN rtCalls :
        rtCalls[i].from \in Endpoints =>
            LET from == rtCalls[i].from
                peer == Peer(rtCalls[i].from)
            IN  /\ i \notin rtPending[peer]
                /\ \A job \in rtJobs :
                      job.id = i =>
                          /\ job.at = peer
                          /\ job.method = rtCalls[i].method
                          /\ job.method \in Handlers(peer)
                /\ \A msg \in FramesOf(peer, i) :
                      msg.type = "request" /\ msg.method = rtCalls[i].method
                /\ \A msg \in FramesOf(from, i) :
                      msg.type = "response" /\ rtResp[i] = <<msg>>
                /\ Len(rtInbox[i]) <= 1
                /\ \A n \in 1..Len(rtInbox[i]) : rtResp[i] = <<rtInbox[i][n]>>
                /\ Answered(i) =>
                      /\ Len(rtResp[i]) = 1
                      /\ rtResp[i][1].id = i
                      /\ rtCalls[i].outcome = BlockingOutcome(rtResp[i][1])
                      /\ rtCalls[i].method \in Handlers(peer) =>
                            rtResp[i][1] \in {ReplyMessage(i, reply) : reply \in Replies}

\* The case of C14: the server's call of the client's Multiply has returned
\* the handler's result while a call of the client to the server is still
\* in flight on the same connection.
C14_Witness ==
    \E i, j \in DOMAIN rtCalls :
        /\ rtCalls[i].from = "server"
        /\ rtCalls[i].method = "Multiply"
        /\ rtCalls[i].pc = "done"
        /\ rtCalls[i].outcome = Returned(Ptr(20))
        /\ rtCalls[j].from = "client"
        /\ rtCalls[j].method = "Divide"
        /\ rtCalls[j].pc = "waiting"
        /\ j \in rtPending["client"]
        /\ \E job \in rtJobs : job.id = j /\ job.at = "server"

\* A call with id i is issued in this step.
IssuedNow(i) ==
    /\ rtCalls[i].pc \in {"idle", "done"}
    /\ rtCalls'[i].pc \in {"waiting", "done"}
    /\ rtCalls'[i] # rtCalls[i]

C17_EmptySlot ==
    \E i \in DOMAIN rtCalls :
        /\ rtCalls[i].from = "client"
        /\ rtCalls[i].kind = "Call"
        /\ rtCalls[i].outcome = Failed("notConnected")
        /\ ~rtSlot
        /\ \A e \in Endpoints : rtWire[e] = <<>> /\ rtPending[e] = {}

\* ------------------------------------------------------------------------
\* CallContext.Cancel called by several tasks (SpecCancel)
\* ------------------------------------------------------------------------

\* CallAsync has sent the request and returned its CallContext: the id is
\* pending, cancelCh is open and the waiter goroutine is at its select.
CallAsyncReturned ==
    /\ cnTask = [t \in Cancellers |-> "idle"]
    /\ cnCount = [t \in Cancellers |-> 0]
    /\ cnClosed = FALSE
    /\ cnPanicked = FALSE
    /\ cnWaiter = "select"
    /\ cnInbox = <<>>
    /\ cnPending = TRUE
    /\ cnCallbacks = <<>>

\* handleMessage, case ResponseType, for the id of the call: deliver to the
\* inbox and delete the entry while the id is pending.
CancelHandleResponse(isErr) ==
    /\ ~cnPanicked
    /\ cnPending
    /\ cnInbox = <<>>
    /\ cnInbox' = <<isErr>>
    /\ cnPending' = FALSE
    /\ UNCHANGED <<cnTask, cnCount, cnClosed, cnPanicked, cnWaiter, cnCallbacks>>
    /\ UNCHANGED otherThanCancel

\* The waiter's select, "case msg := <-ch".
WaiterRecv ==
    /\ ~cnPanicked
    /\ cnWaiter = "select"
    /\ cnInbox # <<>>
    /\ cnCallbacks' = Append(cnCallbacks, IF Head(cnInbox) THEN "error" ELSE "result")
    /\ cnInbox' = <<>>
    /\ cnWaiter' = "returning"
    /\ UNCHANGED <<cnTask, cnCount, cnClosed, cnPanicked, cnPending>>
    /\ UNCHANGED otherThanCancel

\* The waiter's select, "case <-time.After(timeout)".
WaiterTimeout ==
    /\ ~cnPanicked
    /\ cnWaiter = "select"
    /\ cnCallbacks' = Append(cnCallbacks, "timeout")
    /\ cnWaiter' = "returning"
    /\ UNCHANGED <<cnTask, cnCount, cnClosed, cnPanicked, cnInbox, cnPending>>
    /\ UNCHANGED otherThanCancel

\* The waiter's select, "case <-ctx.cancelCh": ready once the channel is
\* closed.
WaiterCancelled ==
    /\ ~cnPanicked
    /\ cnWaiter = "select"
    /\ cnClosed
    /\ cnCallbacks' = Append(cnCallbacks, "cancelled")
    /\ cnWaiter' = "returning"
    /\ UNCHANGED <<cnTask, cnCount, cnClosed, cnPanicked, cnInbox, cnPending>>
    /\ UNCHANGED otherThanCancel

\* The waiter's deferred delete(c.pending, id).
WaiterDeferredDelete ==
    /\ ~cnPanicked
    /\ cnWaiter = "returning"
    /\ cnPending' = FALSE
    /\ cnWaiter' = "exited"
    /\ UNCHANGED <<cnTask, cnCount, cnClosed, cnPanicked, cnInbox, cnCallbacks>>
    /\ UNCHANGED otherThanCancel

\* Cancel, the select of task t: "case <-cc.cancelCh" when the channel is
\* closed (Cancel returns), "default" otherwise.
CancelSelect(t) ==
    /\ ~cnPanicked
    /\ cnTask[t] = "idle"
    /\ cnCount[t] < MaxCancels
    /\ cnCount' = [cnCount EXCEPT ![t] = @ + 1]
    /\ cnTask' = [cnTask EXCEPT ![t] = IF cnClosed THEN "idle" ELSE "default"]
    /\ UNCHANGED <<cnClosed, cnPanicked, cnWaiter, cnInbox, cnPending, cnCallbacks>>
    /\ UNCHANGED otherThanCancel

\* A Cancel whose test of the channel and close are one step.
CancelCloseMutAtomic(t) ==
    /\ ~cnPanicked
    /\ cnTask[t] = "default"
    /\ cnClosed' = TRUE
    /\ cnTask' = [cnTask EXCEPT ![t] = "idle"]
    /\ UNCHANGED <<cnCount, cnPanicked, cnWaiter, cnInbox, cnPending, cnCallbacks>>
    /\ UNCHANGED otherThanCancel

\* Cancel, the default branch of task t: close(cc.cancelCh).  Closing a
\* closed channel is a run-time panic, which ends the process.
CancelClose(t) ==
    /\ ~cnPanicked
    /\ cnTask[t] = "default"
    /\ IF cnClosed
          THEN cnPanicked' = TRUE /\ UNCHANGED cnClosed
          ELSE cnClosed' = TRUE /\ UNCHANGED cnPanicked
    /\ cnTask' = [cnTask EXCEPT ![t] = "idle"]
    /\ UNCHANGED <<cnCount, cnWaiter, cnInbox, cnPending, cnCallbacks>>
    /\ UNCHANGED otherThanCancel

InitCancel ==
    CorrOff /\ SendOff /\ HSOff /\ RegOff /\ ACOff /\ RTOff /\ LockOff /\ RegistryOff /\ CallAsyncReturned

NextCancel ==
    \/ \E isErr \in BOOLEAN : CancelHandleResponse(isErr)
    \/ WaiterRecv
    \/ WaiterTimeout
    \/ WaiterCancelled
    \/ WaiterDeferredDelete
    \/ \E t \in Cancellers : CancelSelect(t)
    \/ \E t \in Cancellers : CancelClose(t)

SpecCancel == InitCancel /\ [][NextCancel]_vars

\* C15: whatever the number of Cancel calls on a CallContext, by one task
\* after another or by several tasks at once, before or after the call
\* completed, the callback is invoked with the cancellation error at most
\* once, a call whose callback was invoked never gets a second callback, and
\* no Cancel panics.
C15_CancelIdempotent ==
    /\ ~cnPanicked
    /\ Len(cnCallbacks) <= 1
    /\ Cardinality({n \in 1..Len(cnCallbacks) : cnCallbacks[n] = "cancelled"}) <= 1

\* The case of C15: two tasks are inside Cancel at once, both past the test
\* of the channel, and one of them has closed it.
C15_Witness ==
    \E t, u \in Cancellers :
        /\ t # u
        /\ cnTask[t] = "default"
        /\ cnCount[u] >= 1
        /\ cnTask[u] = "idle"
        /\ cnClosed

\* The callback half of C15: at most one callback, whatever the Cancel
\* calls do.
C15_AtMostOneCallback ==
    /\ Len(cnCallbacks) <= 1
    /\ cnWaiter = "select" <=> cnCallbacks = <<>>

\* Cancel calls that follow one another never panic: a panic needs two
\* tasks that were inside Cancel at the same time.
C15_PanicNeedsTwoTasks ==
    cnPanicked => Cardinality({t \in Cancellers : cnCount[t] >= 1}) >= 2

\* ------------------------------------------------------------------------
\* Keep-alive of the auto-client's connection (SpecReg)
\* ------------------------------------------------------------------------

\* Connection c is the only one the server has accepted, it is registered
\* and its read loop runs: the connection an AutoClient published, seen from
\* the server.  AutoClient has no timer and no goroutine that sends Ping
\* (NewAutoClient, Start, loop and connectOnce start none): the only Ping
\* requests on the connection are those the embedder's own code issues,
\* which are the handlePing steps of SpecReg.
OnlyLiveConnection(c) ==
    /\ ~crashed
    /\ regPc[c] = "serving"
    /\ rlReg[c] = "running"
    /\ \A d \in Conns \ {c} : regPc[d] = "accept"

\* The server has the fresh heartbeat of the one live connection c.
KeptAlive(c) ==
    /\ Registered(connID[c])
    /\ clients[connID[c]] = c
    /\ FreshPing(connID[c])

\* C16: while the auto-client's connection is up, the server's lastPing for
\* its id is never older than 40 s and the id stays registered to that
\* connection, so that every GetClientByID(id) made meanwhile returns the
\* connection.
C16_KeepAlive ==
    [][\A c \in Conns :
          /\ OnlyLiveConnection(c)' => KeptAlive(c)'
          /\ (OnlyLiveConnection(c) /\ getSeq' # getSeq /\ lastGet'.id = connID[c]) =>
                lastGet'.ret = {c}]_vars

\* The case of C16: the connection is up, 40 s have passed since the
\* handshake, and GetClientByID still returned the connection.
C16_Witness ==
    \E c \in Conns :
        /\ OnlyLiveConnection(c)
        /\ Registered(connID[c])
        /\ now - lastPing[connID[c]] = 40
        /\ lastGet = [id |-> connID[c], ret |-> {c}]

\* ------------------------------------------------------------------------
\* The ready callback of the auto-client (SpecHS)
\* ------------------------------------------------------------------------

\* C18: connectOnce invokes onReady at most once, and exactly once when it
\* returns nil; when it is invoked the server had accepted the
\* authentication (authFunc was asked once and said yes, the answer read was
\* auth_ok), the handlers are attached and the read loop was started, and
\* the connection is published in activeConn; it is never invoked by an
\* attempt that failed (failed dial, failed negotiation, rejected
\* authentication), which publishes nothing and starts no read loop.
C18_OnReadyOnce ==
    /\ nOnReady <= 1
    /\ nOnReady = 1 <=> ccPc = "done"
    /\ nOnReady = 1 =>
          /\ hsPublished
          /\ cliRl # "off"
          /\ resp.type = "auth_ok"
          /\ authOk
          /\ nAuthCalls = 1
    /\ ccPc = "onReady" => hsPublished /\ cliRl # "off"
    /\ ccPc = "failed" =>
          /\ nOnReady = 0
          /\ ~hsPublished
          /\ cliRl = "off"

\* The case of C18: the handshake succeeded and onReady has been invoked,
\* with the read loop running and the connection published.
C18_Witness ==
    /\ nOnReady = 1
    /\ ccPc = "done"
    /\ hsPublished
    /\ cliRl = "running"
    /\ resp.type = "auth_ok"

\* The other case of C18: the server rejected the authentication and
\* connectOnce failed without invoking onReady.
C18_Rejected ==
    /\ ccPc = "failed"
    /\ resp # <<>>
    /\ resp.type = "auth_fail"
    /\ nOnReady = 0

\* ------------------------------------------------------------------------
\* What Start returned and what its goroutine does (SpecAC)
\* ------------------------------------------------------------------------

\* Some connectOnce has succeeded: a connection went through Store and
\* onReady.
EverConnected == \E c \in ACConns : acConns[c] \in {"live", "dead"}

\* C19: when Start has returned nil a connection is published and the
\* reconnect loop is running; when Start has returned an error, the
\* 5-second timeout included, no connection is published, onReady has not
\* been invoked and no reconnect loop runs, then or later.
C19_StartOutcome ==
    /\ startRet = "nil" => activeConn # {} /\ inLoop /\ EverConnected
    /\ startRet \in {"err", "timeout"} =>
          /\ activeConn = {}
          /\ ~EverConnected
          /\ ~inLoop

\* The case of C19: Start has returned the timeout error while its
\* goroutine is still inside the first connectOnce.
C19_Witness ==
    /\ startRet = "timeout"
    /\ acPc = "handshake"
    /\ activeConn = {}
    /\ ~inLoop

\* C19 without the timeout: what Start returned is what the first
\* connectOnce returned.
C19_AttemptOutcome ==
    /\ startRet = "nil" => activeConn # {} /\ inLoop /\ EverConnected
    /\ startRet = "err" => activeConn = {} /\ ~EverConnected /\ ~inLoop /\ acPc = "exit"

\* ------------------------------------------------------------------------
\* Failure on send (Spec)
\* ------------------------------------------------------------------------

\* Send of the Request frame of call i failed.
SendFailed(i) ==
    \/ pc[i] \in {"sendfail", "errcallback"}
    \/ outcome[i].kind = "senderr"

\* C20: when Send of the request failed, the id is out of c.pending before
\* Call returns the error and before CallAsync starts the callback that
\* reports it; the inbox of that id never holds a message; and the error is
\* reported exactly once: not before the entry is deleted, once when the
\* call is over, and it is the only outcome the caller gets.
C20_FailureOnSend ==
    \A i \in CallIds :
        SendFailed(i) =>
            /\ i \notin sent
            /\ ch[i] = <<>>
            /\ pc[i] \in {"sendfail", "errcallback", "done"}
            /\ pc[i] = "sendfail" => nOutcome[i] = 0
            /\ pc[i] = "errcallback" => i \notin pending /\ nOutcome[i] = 0
            /\ pc[i] = "done" =>
                  /\ i \notin pending
                  /\ nOutcome[i] = 1
                  /\ outcome[i].kind = "senderr"

\* The case of C20: the Send of a CallAsync failed and its callback has
\* reported the error, the Send of a Call failed and Call has returned it,
\* nothing is pending and the read loop is running.
C20_Witness ==
    \E i, j \in CallIds :
        /\ kind[i] = "CallAsync"
        /\ pc[i] = "done"
        /\ outcome[i].kind = "senderr"
        /\ kind[j] = "Call"
        /\ pc[j] = "done"
        /\ outcome[j].kind = "senderr"
        /\ pending = {}
        /\ rlState = "running"

\* ------------------------------------------------------------------------
\* Late responses (Spec)
\* ------------------------------------------------------------------------

\* C21: a Response frame is dropped exactly when its id has no entry in
\* c.pending; the step that drops it changes nothing else: the pending
\* table, every inbox, every call (its position, its outcome, its cancel
\* channel) and the set of requests sent are as before, and the read loop
\* is still running, ready for the next frame.
C21_LateResponseDropped ==
    [][rlLast' # rlLast =>
          /\ rlLast'.dropped <=> rlLast'.id \notin pending
          /\ rlLast'.dropped =>
                /\ pending' = pending
                /\ ch' = ch
                /\ <<kind', pc', cancelCh', outcome', nOutcome', sent'>>
                      = <<kind, pc, cancelCh, outcome, nOutcome, sent>>
                /\ rlState = "running"
                /\ rlState' = "running"]_vars

\* The case of C21: the caller of one call has got its timeout, the
\* Response for it came afterwards and was dropped, and another call is
\* still waiting, registered, with the read loop running.
C21_Witness ==
    \E i, j \in CallIds :
        /\ rlLast.dropped
        /\ rlLast.id = i
        /\ outcome[i].kind = "timeout"
        /\ pc[i] = "done"
        /\ j # i
        /\ pc[j] = "waiting"
        /\ j \in pending
        /\ rlState = "running"

\* The other cases of C21: the dropped Response was for a cancelled call, or
\* it was a second Response for a call that had got its result.
C21_Cancelled ==
    rlLast.dropped /\ outcome[rlLast.id].kind = "cancelled" /\ rlState = "running"

C21_Duplicate ==
    rlLast.dropped /\ outcome[rlLast.id].kind = "result" /\ rlState = "running"

\* ------------------------------------------------------------------------
\* A handler that never returns (SpecStall)
\* ------------------------------------------------------------------------

\* Blocking calls in both directions on one connection whose client has a
\* fresh heartbeat, each id used once: the call with the lower id is the one
\* that was sent first.
NextStall ==
    \/ \E i \in SymIds, e \in Endpoints, m \in Methods :
          rtCalls[i].pc = "idle" /\ RouteCall(i, e, "Call", m)
    \/ \E e \in Endpoints : RpcHandleResponse(e)
    \/ \E e \in Endpoints : RpcDispatch(e)
    \/ \E e \in Endpoints : RpcNotFound(e)
    \/ \E e \in Endpoints, i \in SymIds, m \in Methods, reply \in SymReplies :
          RpcHandler([at |-> e, id |-> i, method |-> m], reply)
    \/ \E i \in SymIds : RpcRecv(i)
    \/ \E i \in SymIds : RpcTimeout(i)
    \/ RpcDisconnect

SpecStall == InitSym /\ [][NextStall]_vars

\* One iteration of the read loop of e, whatever the frame.
ReadLoopStep(e) == RpcHandleResponse(e) \/ RpcDispatch(e) \/ RpcNotFound(e)

\* The handler goroutine of the request with id i returns.
HandlerReturns(i) ==
    \E e \in Endpoints, m \in Methods, reply \in SymReplies :
        RpcHandler([at |-> e, id |-> i, method |-> m], reply)

\* The Go scheduler runs the read loops and the handler goroutines; the
\* handler of the first request is under no obligation to return, the
\* timers and the transport are free.
FairSpecStall ==
    /\ SpecStall
    /\ \A e \in Endpoints : WF_vars(ReadLoopStep(e))
    /\ \A i \in SymIds \ {1} : WF_vars(HandlerReturns(i))

\* The frame with id i and this type is on its way to an endpoint.
OnWire(i, type) ==
    \E e \in Endpoints : \E msg \in FramesOf(e, i) : msg.type = type

\* Call i is in the pending table of its caller.
IsPending(i) == \E e \in Endpoints : i \in rtPending[e]

C23_NoFrameLost ==
    cliRl = "off" => \A k \in RPCFramesOf(s2c) : k > cliRead

\* The case of C23: the server wrote a Request right behind auth_ok, the
\* negotiation decoder took exactly the auth_ok frame, and the client's read
\* loop decoded the Request and answered it.
C23_Witness ==
    /\ cliRl = "running"
    /\ cliRead >= 2
    /\ s2c[2].kind = "rpc" /\ s2c[2].type = "request"
    /\ \E k \in RPCFramesOf(c2s) : c2s[k].type = "response"

\* The failure of C23: the read loop runs, the server's Request was written
\* and is no longer on the transport, and the client never answers it.
C23_RequestLost ==
    /\ cliRl = "running"
    /\ nRpc = 1
    /\ Len(s2c) = 2 /\ s2c[2].type = "request"
    /\ cliRead = 2
    /\ RPCFramesOf(c2s) = {}

\* The value of UseCompression in the auth_request on the transport.
Requested == c2s[1].useCompression

\* C24: once ServeConn has registered the connection its compression flag
\* is the value the auth_request asked for, and once connectOnce has
\* accepted auth_ok so is the client's, hence the server's as soon as
\* ServeConn is past its EnableCompression; no negotiation frame is ever
\* compressed; and every RPC frame, in either direction, went through the
\* gzip writer exactly when that value is true.
C24_CompressionAgreement ==
    /\ (hsRegistered \/ srvRl # "off") =>
          c2s[1].type = "auth_request" /\ srvGz = Requested
    /\ ccPc \in {"start", "store", "onReady", "done"} =>
          cliGz = Requested /\ (scPc # "compress" => srvGz = cliGz)
    /\ \A k \in 1..Len(c2s) : c2s[k].kind = "neg" => ~c2s[k].gz
    /\ \A k \in 1..Len(s2c) : s2c[k].kind = "neg" => ~s2c[k].gz
    /\ \A k \in RPCFramesOf(c2s) : c2s[k].gz = Requested
    /\ \A k \in RPCFramesOf(s2c) : s2c[k].gz = Requested

\* The case of C24: the client asked for compression, both handshakes are
\* through with the flag set on both sides, and each side has written a
\* Request.
C24_Witness ==
    /\ ccPc = "done"
    /\ hsRegistered
    /\ Requested
    /\ srvGz /\ cliGz
    /\ \E k \in RPCFramesOf(s2c) : s2c[k].type = "request" /\ s2c[k].gz
    /\ \E k \in RPCFramesOf(c2s) : c2s[k].type = "request" /\ c2s[k].gz

\* The other case of C24: no compression was asked for and none is used.
C24_Plain ==
    /\ ccPc = "done"
    /\ hsRegistered
    /\ ~Requested
    /\ ~srvGz /\ ~cliGz
    /\ \E k \in RPCFramesOf(s2c) : s2c[k].type = "request" /\ ~s2c[k].gz
    /\ \E k \in RPCFramesOf(c2s) : c2s[k].type = "request" /\ ~c2s[k].gz

\* ------------------------------------------------------------------------
\* The two maps of the registry (checked under SpecReg)
\* ------------------------------------------------------------------------

\* C25: no task writes s.clients or s.lastPing outside a critical section
\* of clientsMu, and between critical sections the two maps have the same
\* keys.  (Every critical section is one step of SpecReg, so every state is
\* one in which clientsMu is free.)
C25_RegistryConsistency ==
    /\ \A c \in Conns : ~UnlockedWriteBy(c)
    /\ DOMAIN clients = DOMAIN lastPing

\* The failure of C25 on a failed auth_ok: ServeConn has closed the
\* connection and returned, the id it wrote into s.lastPing stays there,
\* and s.clients never had it.
C25_FailedAuthOK ==
    \E c \in Conns :
        /\ regPc[c] = "closed"
        /\ connID[c] \in DOMAIN lastPing
        /\ connID[c] \notin DOMAIN clients
        /\ \A d \in Conns \ {c} : regPc[d] = "accept"
        /\ ~crashed

\* The failure of C25 with no ServeConn in flight: GetClientByID evicted
\* the id from both maps and a Ping of the evicted connection, whose read
\* loop still runs, put it back into s.lastPing alone.
C25_PingAfterEviction ==
    \E c \in Conns :
        /\ regPc[c] = "serving"
        /\ rlReg[c] = "running"
        /\ lastGet = [id |-> connID[c], ret |-> {}]
        /\ connID[c] \in DOMAIN lastPing
        /\ connID[c] \notin DOMAIN clients
        /\ \A d \in Conns \ {c} : regPc[d] = "accept"
        /\ ~crashed

\* ------------------------------------------------------------------------
\* The mutexes and the blocking operations of a connection (SpecLock)
\* ------------------------------------------------------------------------

\* The tasks of an endpoint: its read loop; two callers, c1 in a Call whose
\* timer does not fire and c2 in CallAsync (followed by the waiter goroutine
\* of its call); and the handler goroutines h1 and h2 that "go fn(ctx)"
\* starts for the requests of the peer's c1 and c2.  The server has one
\* handler, handlePing, which the client's c1 may call; the client has
\* none.
LkCallers == {"c1", "c2"}

LkHandlers == {"h1", "h2"}

LkRoles == {"rl"} \cup LkCallers \cup LkHandlers

\* sendMu, pendingMu and initMu of the endpoint's Connection, and clientsMu
\* of the Server (used on the server endpoint only).
LkLocks == {"sendMu", "pendingMu", "initMu", "clientsMu"}

HandlerFor(c) == IF c = "c1" THEN "h1" ELSE "h2"

CallerOf(h) == IF h = "h1" THEN "c1" ELSE "c2"

\* A frame on the transport: a Request of caller id for a method the peer
\* has a handler for or not, or the Response to it.
LkFrame(type, id, known) == [type |-> type, id |-> id, known |-> known]

NoLkFrame == LkFrame("none", "", FALSE)

\* The mutex a task at position p is about to Lock, and where it is once
\* Lock has returned.
LockAt(p) ==
    CASE p \in {"call", "remove", "response"} -> "pendingMu"
      [] p \in {"send", "notfound"} -> "sendMu"
      [] p = "loop" -> "initMu"
      [] p = "ping" -> "clientsMu"
      [] OTHER -> "none"

AfterLock(p) ==
    CASE p = "call" -> "register"
      [] p = "remove" -> "delete"
      [] p = "response" -> "deliver"
      [] p \in {"send", "notfound"} -> "encode"
      [] p = "loop" -> "init"
      [] p = "ping" -> "pong"
      [] OTHER -> p

Release(e, m) == [lkOwner EXCEPT ![e][m] = "free"]

\* An established connection: the read loops at the top of their loop, the
\* callers about to call.
LockInit ==
    /\ lkPc = [e \in Endpoints |-> [r \in LkRoles |->
                 IF r = "rl" THEN "loop"
                 ELSE IF r \in LkHandlers THEN "off" ELSE "call"]]
    /\ lkOwner = [e \in Endpoints |-> [m \in LkLocks |-> "free"]]
    /\ lkWire = [e \in Endpoints |-> <<>>]
    /\ lkPending = [e \in Endpoints |-> {}]
    /\ lkInbox = [e \in Endpoints |-> [c \in LkCallers |-> 0]]
    /\ lkMsg = [e \in Endpoints |-> NoLkFrame]

\* mu.Lock() returns: the mutex was free.
LkLock(e, r) ==
    /\ LockAt(lkPc[e][r]) # "none"
    /\ lkOwner[e][LockAt(lkPc[e][r])] = "free"
    /\ lkOwner' = [lkOwner EXCEPT ![e][LockAt(lkPc[e][r])] = r]
    /\ lkPc' = [lkPc EXCEPT ![e][r] = AfterLock(@)]
    /\ UNCHANGED <<lkWire, lkPending, lkInbox, lkMsg>>
    /\ UNCHANGED otherThanLock

\* Call / CallAsync: c.pending[id] = ch, Unlock of pendingMu, then Send.
LkRegister(e, c) ==
    /\ lkPc[e][c] = "register"
    /\ lkPending' = [lkPending EXCEPT ![e] = @ \cup {c}]
    /\ lkOwner' = Release(e, "pendingMu")
    /\ lkPc' = [lkPc EXCEPT ![e][c] = "send"]
    /\ UNCHANGED <<lkWire, lkInbox, lkMsg>>
    /\ UNCHANGED otherThanLock

\* The frame task r of e hands to Send.
FrameOf(e, r, known) ==
    IF r \in LkCallers THEN LkFrame("request", r, known)
    ELSE IF r \in LkHandlers THEN LkFrame("response", CallerOf(r), FALSE)
    ELSE LkFrame("response", lkMsg[e].id, FALSE)

\* Send, with sendMu held: c.Enc.Encode(msg) writes the frame to the
\* transport, which takes it once it has room, and the deferred Unlock
\* runs.  A caller then waits for the answer, a handler goroutine ends, the
\* read loop goes back to the top of its loop.
LkEncode(e, r, known) ==
    /\ lkPc[e][r] = "encode"
    /\ known => (e = "client" /\ r = "c1")
    /\ Len(lkWire[Peer(e)]) < WireCap
    /\ lkWire' = [lkWire EXCEPT ![Peer(e)] = Append(@, FrameOf(e, r, known))]
    /\ lkOwner' = Release(e, "sendMu")
    /\ lkPc' = [lkPc EXCEPT ![e][r] =
                   IF r \in LkCallers THEN "wait"
                   ELSE IF r \in LkHandlers THEN "returned" ELSE "loop"]
    /\ lkMsg' = IF r = "rl" THEN [lkMsg EXCEPT ![e] = NoLkFrame] ELSE lkMsg
    /\ UNCHANGED <<lkPending, lkInbox>>
    /\ UNCHANGED otherThanLock

\* readLoop: "dec := c.Dec" and Unlock of initMu.
LkInit(e) ==
    /\ lkPc[e]["rl"] = "init"
    /\ lkOwner' = Release(e, "initMu")
    /\ lkPc' = [lkPc EXCEPT ![e]["rl"] = "decode"]
    /\ UNCHANGED <<lkWire, lkPending, lkInbox, lkMsg>>
    /\ UNCHANGED otherThanLock

\* readLoop: dec.Decode(&msg) returns a frame and handleMessage looks at
\* it.  A Response goes to the pending table.  A Request with a handler
\* starts the handler goroutine (handlePing) and the loop goes on; a Request without one is answered by ctx.WriteError(404, ...)
\* on the read loop's own goroutine.
LkDecode(e) ==
    /\ lkPc[e]["rl"] = "decode"
    /\ lkWire[e] # <<>>
    /\ lkWire' = [lkWire EXCEPT ![e] = Tail(@)]
    /\ LET f == Head(lkWire[e])
       IN  IF f.type = "response"
              THEN /\ lkPc' = [lkPc EXCEPT ![e]["rl"] = "response"]
                   /\ lkMsg' = [lkMsg EXCEPT ![e] = f]
              ELSE IF f.known
                      THEN /\ lkPc' = [lkPc EXCEPT ![e]["rl"] = "loop",
                                                   ![e][HandlerFor(f.id)] = "ping"]
                           /\ UNCHANGED lkMsg
                      ELSE /\ lkPc' = [lkPc EXCEPT ![e]["rl"] = "notfound"]
                           /\ lkMsg' = [lkMsg EXCEPT ![e] = f]
    /\ UNCHANGED <<lkOwner, lkPending, lkInbox>>
    /\ UNCHANGED otherThanLock

\* handleMessage, case ResponseType, with pendingMu held: "ch <- msg" and
\* delete when the id is pending; Unlock.  The channel send waits while the
\* inbox is full.
LkDeliver(e) ==
    /\ lkPc[e]["rl"] = "deliver"
    /\ IF lkMsg[e].id \in lkPending[e]
          THEN /\ lkInbox[e][lkMsg[e].id] < 1
               /\ lkInbox' = [lkInbox EXCEPT ![e][lkMsg[e].id] = @ + 1]
               /\ lkPending' = [lkPending EXCEPT ![e] = @ \ {lkMsg[e].id}]
          ELSE UNCHANGED <<lkInbox, lkPending>>
    /\ lkOwner' = Release(e, "pendingMu")
    /\ lkPc' = [lkPc EXCEPT ![e]["rl"] = "loop"]
    /\ lkMsg' = [lkMsg EXCEPT ![e] = NoLkFrame]
    /\ UNCHANGED lkWire
    /\ UNCHANGED otherThanLock

\* "case msg := <-ch": Call returns; the waiter of CallAsync runs the
\* callback and goes to its deferred delete.
LkRecv(e, c) ==
    /\ lkPc[e][c] = "wait"
    /\ lkInbox[e][c] > 0
    /\ lkInbox' = [lkInbox EXCEPT ![e][c] = @ - 1]
    /\ lkPc' = [lkPc EXCEPT ![e][c] = IF c = "c2" THEN "remove" ELSE "done"]
    /\ UNCHANGED <<lkOwner, lkWire, lkPending, lkMsg>>
    /\ UNCHANGED otherThanLock

\* The waiter of CallAsync, "case <-time.After(timeout)": the callback runs
\* and the deferred delete under pendingMu follows.
LkTimeout(e, c) ==
    /\ c = "c2"
    /\ lkPc[e][c] = "wait"
    /\ lkPc' = [lkPc EXCEPT ![e][c] = "remove"]
    /\ UNCHANGED <<lkOwner, lkWire, lkPending, lkInbox, lkMsg>>
    /\ UNCHANGED otherThanLock

\* delete(c.pending, id) and Unlock of pendingMu.
LkDelete(e, c) ==
    /\ lkPc[e][c] = "delete"
    /\ lkPending' = [lkPending EXCEPT ![e] = @ \ {c}]
    /\ lkOwner' = Release(e, "pendingMu")
    /\ lkPc' = [lkPc EXCEPT ![e][c] = "done"]
    /\ UNCHANGED <<lkWire, lkInbox, lkMsg>>
    /\ UNCHANGED otherThanLock

\* handlePing: s.lastPing[clientID] = time.Now(), Unlock of clientsMu, then
\* ctx.WriteResponse("pong").
LkPong(e, h) ==
    /\ lkPc[e][h] = "pong"
    /\ lkOwner' = Release(e, "clientsMu")
    /\ lkPc' = [lkPc EXCEPT ![e][h] = "send"]
    /\ UNCHANGED <<lkWire, lkPending, lkInbox, lkMsg>>
    /\ UNCHANGED otherThanLock

InitLock ==
    CorrOff /\ SendOff /\ HSOff /\ RegOff /\ ACOff /\ RTOff /\ CancelOff /\ RegistryOff
        /\ LockInit

NextLock ==
    \/ \E e \in Endpoints, r \in LkRoles : LkLock(e, r)
    \/ \E e \in Endpoints, c \in LkCallers : LkRegister(e, c)
    \/ \E e \in Endpoints, r \in LkRoles, known \in BOOLEAN : LkEncode(e, r, known)
    \/ \E e \in Endpoints : LkInit(e)
    \/ \E e \in Endpoints : LkDecode(e)
    \/ \E e \in Endpoints : LkDeliver(e)
    \/ \E e \in Endpoints, c \in LkCallers : LkRecv(e, c)
    \/ \E e \in Endpoints, c \in LkCallers : LkTimeout(e, c)
    \/ \E e \in Endpoints, c \in LkCallers : LkDelete(e, c)
    \/ \E e \in Endpoints, h \in LkHandlers : LkPong(e, h)

SpecLock == InitLock /\ [][NextLock]_vars

\* ------------------------------------------------------------------------
\* Claims about the mutexes (checked under SpecLock)
\* ------------------------------------------------------------------------

HeldBy(e, r) == {m \in LkLocks : lkOwner[e][m] = r}

\* The task that task r of e is waiting for, <<>> if it can go on by
\* itself: the holder of the mutex it is locking; the peer's read loop, the
\* one reader of the transport, when its write finds the transport full;
\* the owner of a full inbox it is sending to.
WaitsFor(e, r) ==
    LET p == lkPc[e][r]
    IN  IF LockAt(p) # "none" /\ lkOwner[e][LockAt(p)] # "free"
           THEN <<e, lkOwner[e][LockAt(p)]>>
        ELSE IF p = "encode" /\ Len(lkWire[Peer(e)]) >= WireCap
           THEN <<Peer(e), "rl">>
        ELSE IF p = "deliver" /\ lkMsg[e].id \in lkPending[e]
                              /\ lkInbox[e][lkMsg[e].id] >= 1
           THEN <<e, lkMsg[e].id>>
        ELSE <<>>

NumLkTasks == 2 * Cardinality(LkRoles)

RECURSIVE WaitReaches(_, _, _)
WaitReaches(t, target, n) ==
    /\ n > 0
    /\ WaitsFor(t[1], t[2]) # <<>>
    /\ \/ WaitsFor(t[1], t[2]) = target
       \/ WaitReaches(WaitsFor(t[1], t[2]), target, n - 1)

\* Some tasks wait for one another in a circle.
Deadlocked ==
    \E e \in Endpoints, r \in LkRoles : WaitReaches(<<e, r>>, <<e, r>>, NumLkTasks)

\* The lock discipline of C26: no task locks pendingMu while it holds
\* sendMu; a task that holds pendingMu is not locking anything, is not in a
\* write to the transport and is not waiting on a channel; and no task
\* locks a mutex while it holds another one (so that there is no order of
\* acquisition at all, let alone a cyclic one).
LockDiscipline ==
    \A e \in Endpoints, r \in LkRoles :
        /\ lkOwner[e]["sendMu"] = r => LockAt(lkPc[e][r]) # "pendingMu"
        /\ lkOwner[e]["pendingMu"] = r =>
              /\ LockAt(lkPc[e][r]) = "none"
              /\ lkPc[e][r] # "encode"
              /\ WaitsFor(e, r) = <<>>
        /\ LockAt(lkPc[e][r]) # "none" => HeldBy(e, r) = {}

\* C26: the lock discipline holds and the read loops, callers, async
\* waiters and handlers never wait for one another in a circle.
C26_NoDeadlock == LockDiscipline /\ ~Deadlocked

\* The failure of C26: both read loops are inside Send, answering 404 with
\* sendMu held, each writing to a transport that is full because the other
\* one is not reading; every other task that sends queues up behind them.
C26_ReadLoopsBlockEachOther ==
    /\ \A e \in Endpoints :
          /\ lkPc[e]["rl"] = "encode"
          /\ lkOwner[e]["sendMu"] = "rl"
          /\ Len(lkWire[e]) = WireCap
    /\ LockDiscipline

\* C29: the read loop of an endpoint is never inside Send (it neither
\* waits for sendMu, nor holds it, nor writes to the transport), so that
\* the two read loops never wait for each other.
C29_ReadLoopNeverSends ==
    /\ \A e \in Endpoints :
          /\ lkOwner[e]["sendMu"] # "rl"
          /\ lkPc[e]["rl"] \notin {"notfound", "encode"}
    /\ ~\E e \in Endpoints :
          /\ WaitReaches(<<e, "rl">>, <<Peer(e), "rl">>, NumLkTasks)
          /\ WaitReaches(<<Peer(e), "rl">>, <<e, "rl">>, NumLkTasks)

\* The failure of C29 on one endpoint: the read loop has decoded a Request
\* for an unknown method and waits for sendMu, which a caller holds inside
\* a write that the full transport does not take; meanwhile a frame for
\* this endpoint is on the transport and nobody decodes it.
C29_ReadLoopWaitsForSendMu ==
    \E e \in Endpoints, c \in LkCallers :
        /\ lkPc[e]["rl"] = "notfound"
        /\ lkMsg[e].type = "request" /\ ~lkMsg[e].known
        /\ lkOwner[e]["sendMu"] = c
        /\ lkPc[e][c] = "encode"
        /\ Len(lkWire[Peer(e)]) = WireCap
        /\ lkWire[e] # <<>>

\* ------------------------------------------------------------------------
\* Inboxes and pending entries (checked under Spec)
\* ------------------------------------------------------------------------

\* C27: a message enters an inbox only by a step of the read loop that
\* finds the id in c.pending and the inbox empty, and that step takes the
\* entry out; an entry gets into c.pending only when its call registers, once
\* per call, so no inbox ever gets a second message; and the read loop's
\* channel send never blocks.
C27_SingleDelivery ==
    [][/\ \A i \in CallIds :
             /\ Len(ch'[i]) > Len(ch[i]) =>
                   /\ i \in pending /\ i \notin pending'
                   /\ ch[i] = <<>> /\ Len(ch'[i]) = 1
                   /\ rlLast' = Handled(i, FALSE)
                   /\ rlState = "running"
             /\ (i \notin pending /\ i \in pending') =>
                   pc[i] = "idle" /\ pc'[i] = "registered"
             /\ pc[i] # "idle" => pc'[i] # "idle"
       /\ rlState' # "blocked"]_vars

\* The case of C27: the inbox of a call holds the message delivered to it,
\* the caller has not taken it yet, and the read loop has handled another
\* Response with the same id without blocking.
C27_Witness ==
    \E i \in CallIds :
        /\ Len(ch[i]) = 1
        /\ pc[i] = "waiting"
        /\ rlLast = [seq |-> 0, id |-> i, dropped |-> TRUE]
        /\ rlState = "running"

\* ------------------------------------------------------------------------
\* Errors handed to async callbacks (checked under SpecRPC)
\* ------------------------------------------------------------------------

\* The waiter of the async call i takes from its inbox, in this step, a
\* Response that carries an error.
AsyncCallbackGetsError(i) ==
    /\ rtCalls[i].kind \in {"CallAsync", "CallAsyncWithResult"}
    /\ rtCalls[i].pc = "waiting"
    /\ rtCalls'[i].pc = "done"
    /\ rtInbox[i] # <<>>
    /\ rtInbox'[i] = Tail(rtInbox[i])
    /\ Head(rtInbox[i]).error # Nil

\* C28: the callback of CallAsync and CallAsyncWithResult gets, for a
\* Response that carries an error, what Call returns for it: a
\* ResponseError with the code and the message as separate fields.
C28_AsyncStructuredError ==
    [][\A i \in DOMAIN rtCalls :
          AsyncCallbackGetsError(i) =>
              /\ rtCalls'[i].outcome = BlockingOutcome(Head(rtInbox[i]))
              /\ rtCalls'[i].outcome.kind = "ResponseError"
              /\ rtCalls'[i].outcome.code = Head(rtInbox[i]).errorCode]_vars

\* The failure of C28: the handler of Divide answered WriteError(44,
\* "division by zero") and the callback of a CallAsync got an error that is
\* only a string, with the code formatted into its text.
C28_FlattenedError ==
    \E i \in DOMAIN rtCalls :
        /\ rtCalls[i].kind = "CallAsync"
        /\ rtCalls[i].method = "Divide"
        /\ rtCalls[i].pc = "done"
        /\ rtCalls[i].outcome =
              [kind |-> "errorString", code |-> 0,
               message |-> "error code 44: division by zero", result |-> Nil]

\* C30: once a Call has returned or the callback of a CallAsync has been
\* invoked (with a result, an error, the timeout or the cancellation), the
\* id of the call is not in c.pending.
C30_NoEntryOutlivesCall ==
    \A i \in CallIds : nOutcome[i] > 0 => i \notin pending

\* The blocking half of C30: a Call that has returned has left no entry.
C30_BlockingCall ==
    \A i \in CallIds : (kind[i] = "Call" /\ nOutcome[i] > 0) => i \notin pending

\* The failure of C30: the callback of a cancelled CallAsync has been
\* invoked and the waiter has not run its deferred delete yet (it runs when
\* the callback returns): the id is still in c.pending.
C30_CallbackBeforeDelete ==
    \E i \in CallIds :
        /\ kind[i] = "CallAsync"
        /\ pc[i] = "called"
        /\ outcome[i].kind = "cancelled"
        /\ nOutcome[i] = 1
        /\ i \in pending

\* ------------------------------------------------------------------------
\* Two connections with one clientID (checked under SpecReg)
\* ------------------------------------------------------------------------

\* This step is a handlePing that gives s.lastPing[id] a new time: the
\* entry of id changes and the step is neither the write of a ServeConn,
\* nor one of a cleanup goroutine, nor a GetClientByID.
PingRefreshes(id) ==
    /\ regPc' = regPc
    /\ cleanup' = cleanup
    /\ getSeq' = getSeq
    /\ id \in DOMAIN lastPing'
    /\ id \notin DOMAIN lastPing \/ lastPing'[id] # lastPing[id]

\* C31: a ServeConn that registers puts its own connection under the id,
\* whatever was there; a Ping refreshes s.lastPing[id] only when it came in
\* on the connection registered for id; and GetClientByID returns a
\* connection only on the strength of an entry which that connection wrote.
C31_OnlyRegisteredConnection ==
    [][/\ \A c \in Conns :
             (regPc[c] = "register" /\ regPc'[c] = "start") =>
                 clients'[connID[c]] = c
       /\ \A id \in ClientIDs :
             PingRefreshes(id) =>
                 Registered(id) /\ clients[id] = pingFrom'[id]
       /\ (getSeq' # getSeq /\ lastGet'.ret # {}) =>
             lastGet'.ret = {pingFrom[lastGet'.id]}]_vars

\* The failure of C31: connection d has registered under the id of
\* connection c, which was registered before and whose read loop still runs;
\* d has started no read loop, the entry of the id was written last by a
\* Ping of c, more than 40 s after d's own write, and on its strength
\* GetClientByID has just returned d.
C31_PingOnReplacedConnection ==
    \E c, d \in Conns :
        /\ c # d
        /\ connID[c] = connID[d]
        /\ regPc[c] = "serving" /\ rlReg[c] = "running"
        /\ regPc[d] = "start" /\ rlReg[d] = "off"
        /\ clients[connID[d]] = d
        /\ pingFrom[connID[d]] = c
        /\ lastPing[connID[d]] = now
        /\ now > DefaultHeartbeatTimeout
        /\ lastGet = [id |-> connID[d], ret |-> {d}]
        /\ ~crashed

\* The other failure of C31: GetClientByID has evicted the id as stale, the
\* read loop of the evicted connection still runs, and its Ping has put the
\* id back into s.lastPing.
C31_PingOnStaleConnection ==
    \E c \in Conns :
        /\ regPc[c] = "serving" /\ rlReg[c] = "running"
        /\ ~Registered(connID[c])
        /\ connID[c] \in DOMAIN lastPing
        /\ pingFrom[connID[c]] = c
        /\ lastPing[connID[c]] > DefaultHeartbeatTimeout
        /\ \A d \in Conns \ {c} : regPc[d] = "accept"
        /\ ~crashed

\* ------------------------------------------------------------------------
\* The handler registry (SpecHR)
\* ------------------------------------------------------------------------

\* One HandlerRegistry is shared by the Server (or the AutoClient) and all
\* its connections ("c.handlers = s.handlers"): the registrars are tasks of
\* the embedder that call Register, the getters are read loops that call
\* Get for the Requests they decode.
Registrars == 1..NumRegistrars

Getters == (NumRegistrars + 1)..(NumRegistrars + NumGetters)

HRTasks == Registrars \cup Getters

HRMethods == {"Echo", "Add"}

HandlerFuncs == {"fn1", "fn2"}

\* The nil HandlerFunc, which a map read gives for a missing key.
NilFunc == "nil"

HRTask(p, m, fn, raced) == [pc |-> p, method |-> m, fn |-> fn, raced |-> raced]

HRIdle == HRTask("idle", "", NilFunc, FALSE)

NoGet == [method |-> "", ret |-> NilFunc, want |-> NilFunc, clean |-> FALSE]

\* NewHandlerRegistry: an empty map.
NewHandlerRegistry ==
    /\ hrTask = [t \in HRTasks |-> HRIdle]
    /\ hrGets = [t \in Getters |-> 0]
    /\ hrHandlers = EmptyMap
    /\ hrLastReg = [m \in HRMethods |-> NilFunc]
    /\ hrLast = NoGet
    /\ hrCrashed = FALSE

\* Another task is in the middle of an access to hr.handlers that no lock
\* orders with a write of task t: a write of Register, or a read of Get.
OtherWriter(t) == \E u \in HRTasks \ {t} : hrTask[u].pc = "writing"

OtherReader(t) == \E u \in HRTasks \ {t} : hrTask[u].pc = "reading"

\* Register(method, fn): "hr.handlers[method] = fn" begins.  Register takes
\* no lock, so nothing keeps it from beginning while other tasks write or
\* read the map.
RegisterWriteBegin(t, m, fn) ==
    /\ ~hrCrashed
    /\ t \in Registrars
    /\ hrTask[t].pc = "idle"
    /\ hrTask' = [hrTask EXCEPT ![t] = HRTask("writing", m, fn, FALSE)]
    /\ UNCHANGED <<hrGets, hrHandlers, hrLastReg, hrLast, hrCrashed>>
    /\ UNCHANGED otherThanHR

\* Register: the map write completes and Register returns.  When it
\* overlapped another access the runtime aborts ("concurrent map writes",
\* "concurrent map read and map write"), or the map is left with any
\* content for the key and the reads it overlapped may give anything.
RegisterWriteEnd(t) ==
    /\ ~hrCrashed
    /\ hrTask[t].pc = "writing"
    /\ LET m == hrTask[t].method
           fn == hrTask[t].fn
       IN  IF OtherWriter(t) \/ OtherReader(t)
              THEN \/ /\ hrCrashed' = TRUE
                      /\ UNCHANGED <<hrTask, hrHandlers, hrLastReg>>
                   \/ /\ hrHandlers' \in RacyWrites(hrHandlers, m, fn, FALSE)
                      /\ hrLastReg' = [hrLastReg EXCEPT ![m] = fn]
                      /\ hrTask' = [u \in HRTasks |->
                                       IF u = t THEN HRTask("done", "", NilFunc, FALSE)
                                       ELSE IF hrTask[u].pc = "reading"
                                               THEN [hrTask[u] EXCEPT !.raced = TRUE]
                                               ELSE hrTask[u]]
                      /\ UNCHANGED hrCrashed
              ELSE /\ hrHandlers' = MapPut(hrHandlers, m, fn)
                   /\ hrLastReg' = [hrLastReg EXCEPT ![m] = fn]
                   /\ hrTask' = [hrTask EXCEPT ![t] = HRTask("done", "", NilFunc, FALSE)]
                   /\ UNCHANGED hrCrashed
    /\ UNCHANGED <<hrGets, hrLast>>
    /\ UNCHANGED otherThanHR

\* Get(method): hr.mu.RLock() returns.  No task ever calls hr.mu.Lock(), so
\* a read lock is never refused, whoever reads or writes.
GetRLock(t, m) ==
    /\ ~hrCrashed
    /\ t \in Getters
    /\ hrTask[t].pc = "idle"
    /\ hrGets[t] < MaxGets
    /\ hrGets' = [hrGets EXCEPT ![t] = @ + 1]
    /\ hrTask' = [hrTask EXCEPT ![t] = HRTask("reading", m, NilFunc, FALSE)]
    /\ UNCHANGED <<hrHandlers, hrLastReg, hrLast, hrCrashed>>
    /\ UNCHANGED otherThanHR

\* What hr.handlers[m] gives.
Lookup(m) == IF m \in DOMAIN hrHandlers THEN hrHandlers[m] ELSE NilFunc

\* Get: "return hr.handlers[method]" and the deferred RUnlock.  A read that
\* overlapped a write of Register aborts the runtime or gives anything.
GetReturn(t) ==
    /\ ~hrCrashed
    /\ hrTask[t].pc = "reading"
    /\ LET m == hrTask[t].method
       IN  IF hrTask[t].raced \/ OtherWriter(t)
              THEN \/ /\ hrCrashed' = TRUE
                      /\ UNCHANGED <<hrTask, hrLast>>
                   \/ /\ \E fn \in HandlerFuncs \cup {NilFunc} :
                            hrLast' = [method |-> m, ret |-> fn,
                                       want |-> hrLastReg[m], clean |-> FALSE]
                      /\ hrTask' = [hrTask EXCEPT ![t] = HRIdle]
                      /\ UNCHANGED hrCrashed
              ELSE /\ hrLast' = [method |-> m, ret |-> Lookup(m),
                                 want |-> hrLastReg[m], clean |-> TRUE]
                   /\ hrTask' = [hrTask EXCEPT ![t] = HRIdle]
                   /\ UNCHANGED hrCrashed
    /\ UNCHANGED <<hrGets, hrHandlers, hrLastReg>>
    /\ UNCHANGED otherThanHR

InitHR ==
    CorrOff /\ SendOff /\ HSOff /\ RegOff /\ ACOff /\ RTOff /\ CancelOff /\ LockOff
        /\ NewHandlerRegistry

NextHR ==
    \/ \E t \in HRTasks, m \in HRMethods, fn \in HandlerFuncs : RegisterWriteBegin(t, m, fn)
    \/ \E t \in HRTasks : RegisterWriteEnd(t)
    \/ \E t \in HRTasks, m \in HRMethods : GetRLock(t, m)
    \/ \E t \in HRTasks : GetReturn(t)

SpecHR == InitHR /\ [][NextHR]_vars

\* ------------------------------------------------------------------------
\* Claims about the handler registry (checked under SpecHR)
\* ------------------------------------------------------------------------

\* C32: the runtime never aborts on the map of the registry; while a
\* Register writes the map no other task writes or reads it; and a Get that
\* overlapped no Register returns the handler of the last Register of its
\* method that returned (nil when there was none).
C32_RegistryThreadSafe ==
    /\ ~hrCrashed
    /\ \A t \in HRTasks :
          hrTask[t].pc = "writing" => ~OtherWriter(t) /\ ~OtherReader(t)
    /\ hrLast.clean => hrLast.ret = hrLast.want

\* The failure of C32 the claim names: a read loop is inside its lookup,
\* holding the read lock, while a Register writes the map.
C32_RegisterDuringGet ==
    \E t \in Registrars, u \in Getters :
        /\ hrTask[t].pc = "writing"
        /\ hrTask[u].pc = "reading"
        /\ hrTask[u].method = hrTask[t].method
        /\ ~hrCrashed

\* A later consequence: both Registers have returned, no task is in the
\* registry, and a Get that overlapped nothing did not return the handler
\* registered last.
C32_StaleHandler ==
    /\ \A t \in Registrars : hrTask[t].pc = "done"
    /\ \A u \in Getters : hrTask[u].pc = "idle"
    /\ hrLast.clean
    /\ hrLast.want \in HandlerFuncs
    /\ hrLast.ret # hrLast.want
    /\ ~hrCrashed

\* The part of C32 that holds: two read loops are inside Get at once.
C32_GetsDoNotBlock ==
    \A t \in Getters : hrTask[t].pc = "reading" /\ ~hrCrashed

====
